---- MODULE Spec2Model ----
(***************************************************************************)
(* A model of CSUNetSec/protoparse: the MRT framing scanner (SplitMrt      *)
(* under bufio.Scanner as configured by getScanner), the mrtReader stream  *)
(* reader, the record-file container of util/pbfile.go and the prefix tree *)
(* of util/util.go.                                                        *)
(*                                                                         *)
(* Bytes are integers 0..255, byte strings are sequences.  A Go slice is   *)
(* kept as a backing array with offsets where the code's behaviour depends *)
(* on capacity.                                                            *)
(***************************************************************************)
EXTENDS Integers, Sequences, FiniteSets, TLC

VARIABLES
    \* ---- the input stream and its reader (io.Reader under the scanner)
    recs,       \* the records the input was built from (history)
    src,        \* the bytes the reader will deliver, in order
    rpos,       \* how many of them it has delivered
    \* ---- bufio.Scanner as built by getScanner
    sc,         \* [buf, start, end, err, tokLo, tokN]: backing array, window,
                \* sticky error, place of the last token
    spc,        \* position inside Scanner.Scan: "idle" | "scan" | "read"
    sret,       \* what the last finished Scan call of the consumer returned
    toks,       \* every token the scanner has yielded, in order (history)
    calls,      \* Scan calls made after one returned false (bounded)
    \* ---- mrtReader
    mr,         \* [err, lastTok, lastTokErr, filters]
    delivered,  \* history: what each Scan()==true made available
    crashed,    \* the goroutine panicked (the program is gone)
    \* ---- util.PrefixTree
    pt,         \* the radix tree: the set of keys inserted
    added,      \* history: the prefixes passed to Add, with their keys
    query,      \* the last ContainsIpMask call: <<>> or
                \* <<[ip, mask, key, found, among]>>, among = added at the call
    \* ---- util.RecordFile / util.FootedRecordFile on the file "/f"
    fs,         \* the file: [exists, data]
    hs,         \* the os.File handles opened so far: [open, off, rd, wr]
    rf,         \* the record-file object
    last,       \* the last call on it: [op, err, wr, nw]
    written,    \* history: payloads accepted by Write in write sessions
    rftoks,     \* history: tokens yielded by the current Scanner
    \* ---- direct calls of the package's functions
    call,       \* the last call: [fn, arg, res]
    \* ---- gobgpdump: the workers, their formatter and their dump file
    mwf,        \* the MultiWriteFile dc.dump: [base, mx], mx = 0 when unlocked
    sink,       \* the bytes of the file behind mwf.base
    fmtr,       \* the TextFormatter dc.fmtr: [msgNum]
    wk,         \* each worker goroutine: [pc, num, tmp, out, n]
    files,      \* names left in dc.source
    formatted   \* history: the message number of every finished format call

scanVars == <<recs, src, rpos, sc, spc, sret, toks, calls>>
mrtVars  == <<mr, delivered, crashed>>
ptVars   == <<pt, added, query>>
rfVars   == <<fs, hs, rf, last, written, rftoks>>
callVars == <<call>>
dumpVars == <<mwf, sink, fmtr, wk, files, formatted>>
vars     == <<scanVars, mrtVars, ptVars, rfVars, callVars, dumpVars>>

(***************************************************************************)
(* Bounds of the model.                                                    *)
(***************************************************************************)
\* Records per input stream.
MaxRecs == 3
\* Scan calls the consumer still makes after Scan has returned false.
MaxExtraCalls == 2
\* Add calls on one prefix tree.
MaxAdds == 2
\* os.File handles opened on the record file (an append open takes two).
MaxHandles == 3
\* Write calls on the record file.
MaxWrites == 2
\* calls of the methods under OpenRead / OpenWrite / Close that a user can
\* also make: OpenWithBufferSizes, ReadFooter, Read, Flush
MaxDirectCalls == 1
\* Largest entry count the caller reports through IncEntries.
MaxEntries == 10
\* Size of the scan buffer.  getScanner allocates 2<<20 bytes and passes
\* cap(scanbuffer) as the maximum token size; the model keeps the same
\* structure (initial buffer = maximum token size) at a size that the
\* streams of the model can fill.
ScanBufCap == 80
\* Records in an MRT file given to the mrtReader.
MaxMrtRecs == 2
\* Size of a short read of the file.
MrtChunk == 50
\* Largest mask passed to IpToRadixkey (the widest family has 128 bits).
MaxKeyMask == 129
\* Longest filter list given to FilterAll.
MaxFilters == 3
\* Most prefix entries in a block given to readPrefix.
MaxPrefixes == 3
\* Most attributes in a block given to readAttrs.
MaxAttrs == 3
\* Largest MRT subtype given to mrtHhdrBuf.Parse.
MaxSubtype == 8
\* Worker goroutines of a dump (the -workers option); the source holds at
\* most one file name per worker, each file one record.
NumWorkers == 2

(***************************************************************************)
(* Program constants.                                                      *)
(***************************************************************************)
MRT_HEADER_LEN == 12
BGP4MP == 16
BGP4MP_ET == 17
MESSAGE == 1
MESSAGE_AS4 == 4
MESSAGE_LOCAL == 7
MESSAGE_AS4_LOCAL == 7
TABLE_DUMP == 12
TABLE_DUMP_V2 == 13
PEER_INDEX_TABLE == 1

(***************************************************************************)
(* Byte helpers (encoding/binary, big endian).                             *)
(***************************************************************************)
Min(a, b) == IF a < b THEN a ELSE b
Max(a, b) == IF a > b THEN a ELSE b

\* binary.BigEndian.Uint16 / Uint32 of the bytes at 1-based position i of s.
BEUint16(s, i) == s[i] * 256 + s[i + 1]
BEUint32(s, i) == ((s[i] * 256 + s[i + 1]) * 256 + s[i + 2]) * 256 + s[i + 3]

\* binary.Write(w, binary.BigEndian, uint16/uint32(v)).
PutUint16(v) == <<(v \div 256) % 256, v % 256>>
PutUint32(v) == <<(v \div 16777216) % 256, (v \div 65536) % 256,
                  (v \div 256) % 256, v % 256>>

Zeros(n) == [i \in 1..n |-> 0]

RECURSIVE Concat(_)
Concat(ss) == IF ss = <<>> THEN <<>> ELSE Head(ss) \o Concat(Tail(ss))

(***************************************************************************)
(* SplitMrt: the bufio.SplitFunc of the MRT framing.                       *)
(* data is s.buf[s.start:s.end]; capData its capacity.                     *)
(* The result's token is [isNil, bytes].                                   *)
(***************************************************************************)
NilToken == [isNil |-> TRUE, bytes |-> <<>>]
Token(b) == [isNil |-> FALSE, bytes |-> b]

SplitMrt(data, capData, atEOF) ==
    LET dataLen == Len(data) IN
    IF atEOF /\ dataLen = 0 THEN [advance |-> 0, token |-> NilToken]
    ELSE IF atEOF THEN [advance |-> dataLen, token |-> Token(data)]
    ELSE IF capData < MRT_HEADER_LEN THEN [advance |-> 0, token |-> NilToken]
    ELSE IF dataLen < MRT_HEADER_LEN THEN [advance |-> 0, token |-> NilToken]
    ELSE LET totlen == BEUint32(data, 9) + MRT_HEADER_LEN IN
         IF dataLen < totlen THEN [advance |-> 0, token |-> NilToken]
         ELSE [advance |-> totlen, token |-> Token(SubSeq(data, 1, totlen))]

(***************************************************************************)
(* bufio.Scanner, as getScanner configures it: Split(SplitMrt) and         *)
(* Buffer(scanbuffer, cap(scanbuffer)), so the buffer starts at its        *)
(* maximum size and never grows.                                           *)
(***************************************************************************)
NewScanner == [buf |-> Zeros(ScanBufCap), start |-> 0, end |-> 0, err |-> "nil",
               tokLo |-> 0, tokN |-> 0]

\* Scanner.setErr: the first error that is not io.EOF sticks.
SetErr(s, e) == IF s.err = "nil" \/ s.err = "EOF" THEN [s EXCEPT !.err = e] ELSE s

\* Scanner.Err: io.EOF is not reported.
ScannerErr(s) == IF s.err = "EOF" THEN "nil" ELSE s.err

\* The window s.buf[s.start:s.end].
Window(s) == SubSeq(s.buf, s.start + 1, s.end)

\* The top of Scan's loop: offer the window to the split function.
\* out: "token" (Scan returns true), "stop" (Scan returns false),
\*      "more" (go on to read).
\* s.token = token follows every call of the split function: a call that
\* finds no token leaves s.token nil (tokLo = 0, tokN = 0).  The split
\* function is not called on an empty window without an error, and then
\* s.token is left alone.
ScanSplit(s) ==
    IF s.end > s.start \/ s.err # "nil" THEN
        LET r == SplitMrt(Window(s), Len(s.buf) - s.start, s.err # "nil") IN
        IF ~r.token.isNil
        THEN [s |-> [s EXCEPT !.start = @ + r.advance, !.tokLo = s.start,
                              !.tokN = Len(r.token.bytes)],
              out |-> "token", tok |-> r.token.bytes]
        ELSE IF s.err # "nil"
             THEN [s |-> [s EXCEPT !.start = 0, !.end = 0,
                                   !.tokLo = 0, !.tokN = 0],
                   out |-> "stop", tok |-> <<>>]
             ELSE [s |-> [s EXCEPT !.tokLo = 0, !.tokN = 0],
                   out |-> "more", tok |-> <<>>]
    ELSE [s |-> s, out |-> "more", tok |-> <<>>]

\* Before reading: shift the window to the front of the buffer when the
\* buffer is full or more than half of it is consumed.
ScanShift(s) ==
    IF s.start > 0 /\ (s.end = Len(s.buf) \/ s.start > Len(s.buf) \div 2)
    THEN LET w == Window(s) IN
         [s EXCEPT !.buf = [i \in 1..Len(s.buf) |->
                               IF i <= Len(w) THEN w[i] ELSE s.buf[i]],
                   !.end = s.end - s.start, !.start = 0]
    ELSE s

\* A full buffer that cannot grow (len(s.buf) >= maxTokenSize) is
\* bufio.ErrTooLong.
ScanFull(s) == s.end = Len(s.buf)

\* s.r.Read(s.buf[s.end:len(s.buf)]) returned the n bytes b and error e.
ScanFill(s, b, e) ==
    LET filled == [s EXCEPT !.buf = [i \in 1..Len(s.buf) |->
                                        IF i > s.end /\ i <= s.end + Len(b)
                                        THEN b[i - s.end] ELSE s.buf[i]],
                            !.end = s.end + Len(b)]
    IN IF e # "nil" THEN SetErr(filled, e) ELSE filled

(***************************************************************************)
(* Go slices.  A slice is a window [lo, lo+n) of a backing array a; its    *)
(* capacity reaches to the end of the array.  s[i:j] is legal when         *)
(* 0 <= i <= j <= cap(s), s[i:] when i <= len(s), s[i] when i < len(s);    *)
(* anything else is a run-time panic.                                      *)
(***************************************************************************)
Sl(a, lo, n) == [a |-> a, lo |-> lo, n |-> n]
SliceOf(b) == Sl(b, 0, Len(b))
SCap(s) == Len(s.a) - s.lo
SBytes(s) == SubSeq(s.a, s.lo + 1, s.lo + s.n)
SAt(s, i) == s.a[s.lo + i + 1]
SFrom(s, i) == Sl(s.a, s.lo + i, s.n - i)
STo(s, j) == Sl(s.a, s.lo, j)
SU16(s, i) == BEUint16(s.a, s.lo + i + 1)
SU32(s, i) == BEUint32(s.a, s.lo + i + 1)
\* copy(dst, src) into a fresh zeroed dst of n bytes.
CopyInto(n, b) == [i \in 1..n |-> IF i <= Len(b) THEN b[i] ELSE 0]

(***************************************************************************)
(* readPrefix: the NLRI / withdrawn-routes block decoder.                  *)
(* A prefix is [ip, mask]; ip has 4 or 16 bytes.                           *)
(***************************************************************************)
\* pbuf[bytelen-1] & byte(0xff00 >> (bitlen % 8)): keep the top bitlen%8 bits.
Pow2(n) == IF n = 0 THEN 1 ELSE IF n = 1 THEN 2 ELSE IF n = 2 THEN 4
           ELSE IF n = 3 THEN 8 ELSE IF n = 4 THEN 16 ELSE IF n = 5 THEN 32
           ELSE IF n = 6 THEN 64 ELSE IF n = 7 THEN 128 ELSE 256
KeepTopBits(b, r) == b - (b % Pow2(8 - r))

ClearTrailingBits(pbuf, bitlen) ==
    IF bitlen % 8 # 0
    THEN [pbuf EXCEPT ![Len(pbuf)] = KeepTopBits(@, bitlen % 8)]
    ELSE pbuf

RECURSIVE readPrefixLoop(_, _, _)
readPrefixLoop(buf, v6, wpslice) ==
    IF ~(buf.n > 1) THEN wpslice
    ELSE LET bitlen == SAt(buf, 0)
             rest == SFrom(buf, 1)
             bytelen == ((bitlen + 7) % 256) \div 8      \* uint8 arithmetic
         IN IF bytelen > rest.n \/ bytelen < 1 THEN wpslice
            ELSE LET pbuf == ClearTrailingBits(SBytes(STo(rest, bytelen)), bitlen)
                     ipbuf == CopyInto(IF v6 THEN 16 ELSE 4, pbuf)
                 IN readPrefixLoop(SFrom(rest, bytelen), v6,
                                   Append(wpslice, [ip |-> ipbuf, mask |-> bitlen]))

readPrefix(buf, v6) == readPrefixLoop(buf, v6, <<>>)

(***************************************************************************)
(* readAttrs: the path-attribute block decoder.                            *)
(* Results are [kind, err, hasAttrs, attrs, mpadv, mpwdr]; kind is "ok",   *)
(* "err" (an error value is returned) or "panic".                          *)
(***************************************************************************)
ORIGIN == 1
AS_PATH == 2
NEXT_HOP == 3
MULTI_EXIT == 4
LOCAL_PREF == 5
ATOMIC_AGGREGATE == 6
AGGREGATOR == 7
COMMUNITY == 8
MP_REACH_NLRI == 14
MP_UNREACH_NLRI == 15
EXTENDED_COMMUNITY == 16
AS4_PATH == 17
AS4_AGGREGATOR == 18
IPV6_ADDRESS_SPECIFIC_EXTENDED_COMMUNITY == 25
\* ORIGINATOR_ID, CLUSTER_LIST, PMSI_TUNNEL, TUNNEL_ENCAPSULATION_ATTRIBUTE,
\* TRAFFIC_ENGINEERING, AIGP, PE_DISTINGUISHER_LABELS, BGP_LS_ATTRIBUTE,
\* LARGE_COMMUNITY, BGPSEC_PATH, ATTR_SET
RecordedOnlyTypes == {9, 10, 22, 23, 24, 26, 27, 29, 32, 33, 128}

NewAttrs == [OptionalBit |-> FALSE, TransitiveBit |-> FALSE,
             PartialBit |-> FALSE, ExtendedBit |-> FALSE,
             Types |-> <<>>, Origin |-> 0, AsPath |-> <<>>, NextHop |-> <<>>,
             MultiExit |-> 0, LocalPref |-> 0, AtomicAggregate |-> FALSE,
             Aggregator |-> <<>>, Communities |-> <<>>]

AttrOk(attrs, mpadv, mpwdr) ==
    [kind |-> "ok", err |-> "nil", hasAttrs |-> TRUE, attrs |-> attrs,
     mpadv |-> mpadv, mpwdr |-> mpwdr]
\* return nil, err, nil, nil
AttrErr(e) ==
    [kind |-> "err", err |-> e, hasAttrs |-> FALSE, attrs |-> NewAttrs,
     mpadv |-> <<>>, mpwdr |-> <<>>]
\* return attrs, err, nil, nil
AttrErrWith(attrs, e) ==
    [kind |-> "err", err |-> e, hasAttrs |-> TRUE, attrs |-> attrs,
     mpadv |-> <<>>, mpwdr |-> <<>>]
AttrPanic ==
    [kind |-> "panic", err |-> "panic", hasAttrs |-> FALSE, attrs |-> NewAttrs,
     mpadv |-> <<>>, mpwdr |-> <<>>]

\* The ASNs of one path segment: plen values of width w at the front of buf.
ReadASNs(buf, plen, w) ==
    [k \in 1..plen |-> IF w = 4 THEN SU32(buf, (k - 1) * 4)
                                ELSE SU16(buf, (k - 1) * 2)]

\* The readseg / readseg4 loop.  w is the ASN width in bytes.
\* Result: [kind, err, buf, totskip, segs].
RECURSIVE readSegs(_, _, _, _, _)
readSegs(buf, w, attrlen, totskip, segs) ==
    IF buf.n < 2
    THEN [kind |-> "err", err |-> "not enough bytes for path segment",
          buf |-> buf, totskip |-> totskip, segs |-> segs]
    ELSE LET ptype == SAt(buf, 0)
             plen == SAt(buf, 1)
             b2 == SFrom(buf, 2)
         IN IF ptype # 1 /\ ptype # 2
            THEN [kind |-> "err", err |-> "unknown path segment type",
                  buf |-> buf, totskip |-> totskip, segs |-> segs]
            ELSE IF b2.n < plen * w
            THEN [kind |-> "err", err |-> "not enough bytes for path segment ASNs",
                  buf |-> buf, totskip |-> totskip, segs |-> segs]
            ELSE LET asns == ReadASNs(b2, plen, w)
                     seg == [AsSet |-> IF ptype = 1 THEN asns ELSE <<>>,
                             AsSeq |-> IF ptype = 2 THEN asns ELSE <<>>]
                     b3 == SFrom(b2, plen * w)
                     skip == totskip + 2 + plen * w
                 IN IF skip < attrlen
                    THEN readSegs(b3, w, attrlen, skip, Append(segs, seg))
                    ELSE [kind |-> "ok", err |-> "nil", buf |-> b3,
                          totskip |-> skip, segs |-> Append(segs, seg)]

\* The SNPA skipping loop of MP_REACH_NLRI.  Result: [kind, buf, skip].
RECURSIVE skipSNPAs(_, _, _)
skipSNPAs(buf, left, innerskip) ==
    IF left = 0 THEN [kind |-> "ok", buf |-> buf, skip |-> innerskip]
    ELSE IF buf.n < 1 THEN [kind |-> "err", buf |-> buf, skip |-> innerskip]
    ELSE LET snpal == SAt(buf, 0)
             b1 == SFrom(buf, 1)
         IN IF snpal > b1.n THEN [kind |-> "err", buf |-> buf, skip |-> innerskip]
            ELSE skipSNPAs(SFrom(b1, snpal), left - 1, innerskip + 1 + snpal)

ItoB(flagbyte, bit) == (flagbyte \div Pow2(bit)) % 2 = 1

\* One attribute's value, after its header: the switch on the type code.
\* buf starts at the value.  Result: [kind, err, hasAttrs, attrs, buf,
\* totskip, mpadv, mpwdr]; kind "ok" means: go on to the skip computation.
AttrCase(typebyte, attrlen, buf, as4, v6, attrs0, mpadv, mpwdr) ==
    LET attrs == [attrs0 EXCEPT !.Types = Append(@, typebyte)]
        Go(a, b, skip, adv, wdr) ==
            [kind |-> "ok", err |-> "nil", hasAttrs |-> TRUE, attrs |-> a,
             buf |-> b, totskip |-> skip, mpadv |-> adv, mpwdr |-> wdr]
        Fail(e) ==
            [kind |-> "err", err |-> e, hasAttrs |-> FALSE, attrs |-> NewAttrs,
             buf |-> buf, totskip |-> 0, mpadv |-> <<>>, mpwdr |-> <<>>]
        Boom ==
            [kind |-> "panic", err |-> "panic", hasAttrs |-> FALSE,
             attrs |-> NewAttrs, buf |-> buf, totskip |-> 0,
             mpadv |-> <<>>, mpwdr |-> <<>>]
    IN
    CASE typebyte = ORIGIN ->
           IF attrlen # 1 THEN Fail("origin attribute should be 1 byte long")
           ELSE Go([attrs EXCEPT !.Origin = SAt(buf, 0)], buf, 0, mpadv, mpwdr)
      [] typebyte = AS_PATH \/ typebyte = AS4_PATH ->
           LET w == IF typebyte = AS4_PATH \/ as4 THEN 4 ELSE 2
               r == readSegs(buf, w, attrlen, 0, <<>>)
           IN IF r.kind = "err" THEN Fail(r.err)
              ELSE Go([attrs EXCEPT !.AsPath = @ \o r.segs], r.buf, r.totskip,
                      mpadv, mpwdr)
      [] typebyte = NEXT_HOP ->
           IF (v6 /\ attrlen = 16) \/ (~v6 /\ attrlen = 4)
           THEN IF attrlen > SCap(buf) THEN Boom
                ELSE Go([attrs EXCEPT !.NextHop = <<SBytes(STo(buf, attrlen))>>],
                        buf, 0, mpadv, mpwdr)
           ELSE Fail("nexthop ip bytes don't agree in length with ip type")
      [] typebyte = MULTI_EXIT ->
           IF attrlen # 4 THEN Fail("multi-exit discriminator should be 4 bytes")
           ELSE IF 4 > SCap(buf) THEN Boom
           ELSE Go([attrs EXCEPT !.MultiExit = SU32(buf, 0)], buf, 0, mpadv, mpwdr)
      [] typebyte = LOCAL_PREF ->
           IF attrlen # 4 THEN Fail("local-pref should be 4 bytes")
           ELSE IF 4 > SCap(buf) THEN Boom
           ELSE Go([attrs EXCEPT !.LocalPref = SU32(buf, 0)], buf, 0, mpadv, mpwdr)
      [] typebyte = ATOMIC_AGGREGATE ->
           Go([attrs EXCEPT !.AtomicAggregate = TRUE], buf, 0, mpadv, mpwdr)
      [] typebyte = AGGREGATOR ->
           IF attrlen \notin {6, 8, 18, 20}
           THEN Fail("not correct amount of bytes for Aggregator Attribute")
           ELSE IF attrlen > SCap(buf) THEN Boom
           ELSE LET asw == IF attrlen \in {8, 20} THEN 4 ELSE 2
                    as == IF asw = 4 THEN SU32(buf, 0) ELSE SU16(buf, 0)
                    ip == SBytes(SFrom(STo(buf, attrlen), asw))
                IN Go([attrs EXCEPT !.Aggregator = <<[As |-> as, Ip |-> ip]>>],
                      buf, 0, mpadv, mpwdr)
      [] typebyte = COMMUNITY \/ typebyte = EXTENDED_COMMUNITY ->
           IF attrlen > SCap(buf) THEN Boom
           ELSE Go([attrs EXCEPT !.Communities =
                       Append(@, [ext |-> typebyte = EXTENDED_COMMUNITY,
                                  bytes |-> SBytes(STo(buf, attrlen))])],
                   buf, 0, mpadv, mpwdr)
      [] typebyte = MP_REACH_NLRI ->
           IF buf.n < 4 THEN Fail("not enough bytes for MP_REACH")
           ELSE LET nhl == SAt(buf, 3)
                    b4 == SFrom(buf, 4)
                IN IF ~(nhl > 0 /\ nhl < b4.n)
                   THEN Fail("next hop length in MP_REACH is malformed")
                   ELSE IF ~((v6 /\ nhl = 16) \/ (v6 /\ nhl = 32) \/ (~v6 /\ nhl = 4))
                   THEN Fail("nexthop ip bytes in MP_REACH don't agree with ip type")
                   ELSE LET nh == SBytes(STo(b4, IF nhl = 32 THEN 16 ELSE nhl))
                            a2 == [attrs EXCEPT !.Types = Append(@, NEXT_HOP),
                                                !.NextHop = <<nh>>]
                            b5 == SFrom(b4, nhl)
                        IN IF b5.n < 1
                           THEN Fail("not enough space in MP_REACH for SNPA number")
                           ELSE LET snpanum == SAt(b5, 0)
                                    sk == skipSNPAs(SFrom(b5, 1), snpanum, 0)
                                IN IF sk.kind = "err"
                                   THEN Fail("not enough space in MP_REACH for SNPA info")
                                   ELSE Go(a2, sk.buf, 4 + nhl + 1 + sk.skip,
                                           readPrefix(sk.buf, v6), mpwdr)
      [] typebyte = MP_UNREACH_NLRI ->
           IF buf.n < 3 THEN Fail("not enough bytes for MP unreach")
           ELSE LET b3 == SFrom(buf, 3)
                IN Go(attrs, b3, 3, mpadv, readPrefix(b3, v6))
      [] typebyte = AS4_AGGREGATOR ->
           Go(attrs, buf, 0, mpadv, mpwdr)
      [] typebyte = IPV6_ADDRESS_SPECIFIC_EXTENDED_COMMUNITY ->
           IF 20 > buf.n THEN Boom
           ELSE Go(attrs, SFrom(buf, 20), 20, mpadv, mpwdr)
      [] typebyte \in RecordedOnlyTypes ->
           Go(attrs, buf, 0, mpadv, mpwdr)
      [] OTHER ->
           [kind |-> "err", err |-> "unknown type", hasAttrs |-> TRUE,
            attrs |-> attrs0, buf |-> buf, totskip |-> 0,
            mpadv |-> <<>>, mpwdr |-> <<>>]

\* The readattr loop.
RECURSIVE readAttrLoop(_, _, _, _, _, _)
\* After the switch: c is what the case of this attribute left.
readAttrSkip(c, attrlen, as4, v6) ==
    IF c.kind = "panic" THEN AttrPanic
    ELSE IF c.kind = "err"
    THEN [kind |-> "err", err |-> c.err, hasAttrs |-> c.hasAttrs,
          attrs |-> c.attrs, mpadv |-> <<>>, mpwdr |-> <<>>]
    ELSE
    \* buf = buf[int(attrlen)-totskip:]
    LET skip == attrlen - c.totskip IN
    IF skip < 0 \/ skip > c.buf.n THEN AttrPanic
    ELSE readAttrLoop(SFrom(c.buf, skip), as4, v6, c.attrs, c.mpadv, c.mpwdr)

readAttrLoop(buf, as4, v6, attrs0, mpadv, mpwdr) ==
    IF buf.n < 2 THEN AttrOk(attrs0, mpadv, mpwdr)
    ELSE
    LET flagbyte == SAt(buf, 0)
        attrs == [attrs0 EXCEPT !.OptionalBit = ItoB(flagbyte, 7),
                                !.TransitiveBit = ItoB(flagbyte, 6),
                                !.PartialBit = ItoB(flagbyte, 5),
                                !.ExtendedBit = ItoB(flagbyte, 4)]
        typebyte == SAt(buf, 1)
        hdr == IF attrs.ExtendedBit THEN 4 ELSE 3
    IN
    IF buf.n < hdr THEN AttrErr("not enough bytes for extended attribute")
    ELSE
    LET attrlen == IF attrs.ExtendedBit THEN SU16(buf, 2) ELSE SAt(buf, 2)
    IN
    \* int(attrlen+4) <= len(buf), the sum in uint16
    IF ~(((attrlen + hdr) % 65536) <= buf.n) THEN AttrOk(attrs, mpadv, mpwdr)
    ELSE IF attrlen = 0 THEN AttrOk(attrs, mpadv, mpwdr)
    ELSE readAttrSkip(AttrCase(typebyte, attrlen, SFrom(buf, hdr), as4, v6, attrs,
                               mpadv, mpwdr),
                      attrlen, as4, v6)

readAttrs(buf, as4, v6) ==
    IF buf.n < 2
    THEN AttrErrWith(NewAttrs, "not enough bytes for attr flags and code")
    ELSE readAttrLoop(buf, as4, v6, NewAttrs, <<>>, <<>>)

(***************************************************************************)
(* The decoder objects (protoparse.PbVal).  An object is                   *)
(* [type, buf, isv6, isAS4, isIndex, dest]; type "nil" is the nil          *)
(* interface.  Parse() gives [kind, err, next, self]: next is the PbVal it *)
(* returns, self the receiver after the call (Parse advances its buf and   *)
(* fills its dest); kind is "ok", "err" or "panic".                        *)
(***************************************************************************)
AFI_IP == 1
AFI_IP6 == 2

EmptySlice == Sl(<<>>, 0, 0)
NilPbVal == [type |-> "nil", buf |-> EmptySlice, isv6 |-> FALSE,
             isAS4 |-> FALSE, isIndex |-> FALSE, dest |-> <<>>]

ParseOk(next, self) == [kind |-> "ok", err |-> "nil", next |-> next, self |-> self]
ParseErr(e, self) == [kind |-> "err", err |-> e, next |-> NilPbVal, self |-> self]
ParsePanic(self) == [kind |-> "panic", err |-> "panic", next |-> NilPbVal, self |-> self]

NewBgpUpdate == [hasWithdrawn |-> FALSE, WithdrawnRoutes |-> <<>>,
                 hasAttrs |-> FALSE, Attrs |-> NewAttrs,
                 hasAdvertized |-> FALSE, AdvertizedRoutes |-> <<>>]

NewMrtHdrBuf(buf) ==
    [type |-> "mrt", buf |-> buf, isv6 |-> FALSE, isAS4 |-> FALSE,
     isIndex |-> FALSE,
     dest |-> [Timestamp |-> 0, Type |-> 0, Subtype |-> 0, Len |-> 0]]
NewBgp4mpHdrBuf(buf, AS4) ==
    [type |-> "bgp4mp", buf |-> buf, isv6 |-> FALSE, isAS4 |-> AS4,
     isIndex |-> FALSE,
     dest |-> [Peer_AS |-> 0, Local_AS |-> 0, InterfaceIndex |-> 0,
               AddressFamily |-> 0, Peer_IP |-> <<>>, Local_IP |-> <<>>]]
NewBgpHeaderBuf(buf, v6, as4) ==
    [type |-> "bgphdr", buf |-> buf, isv6 |-> v6, isAS4 |-> as4,
     isIndex |-> FALSE,
     dest |-> [Marker |-> <<>>, Length |-> 0, Type |-> 0]]
NewBgpUpdateBuf(buf, v6, as4) ==
    [type |-> "bgpup", buf |-> buf, isv6 |-> v6, isAS4 |-> as4,
     isIndex |-> FALSE, dest |-> NewBgpUpdate]
NewRibIndexBuf(buf) ==
    [type |-> "rib", buf |-> buf, isv6 |-> FALSE, isAS4 |-> FALSE,
     isIndex |-> TRUE, dest |-> [RouteEntry |-> <<>>, PeerEntry |-> <<>>]]
NewRibEntryBuf(buf, subType) ==
    [type |-> "rib", buf |-> buf, isv6 |-> (subType = 4 \/ subType = 5),
     isAS4 |-> FALSE, isIndex |-> FALSE,
     dest |-> [RouteEntry |-> <<>>, PeerEntry |-> <<>>]]

\* mrtHhdrBuf.Parse
mrtHhdrBufParse(mhb) ==
    IF mhb.buf.n < MRT_HEADER_LEN
    THEN ParseErr("Not enough bytes in data slice to decode MRT header", mhb)
    ELSE
    LET u16type == SU16(mhb.buf, 4)
        u16subtype == SU16(mhb.buf, 6)
        hdr == [Timestamp |-> SU32(mhb.buf, 0), Type |-> u16type,
                Subtype |-> u16subtype, Len |-> SU32(mhb.buf, 8)]
        self == [mhb EXCEPT !.dest = hdr]
        rest == SFrom(mhb.buf, MRT_HEADER_LEN)
    IN
    IF rest.n < hdr.Len
    THEN ParseErr("Not enough bytes in data slice for underlying message", self)
    ELSE IF u16type = BGP4MP \/ u16type = BGP4MP_ET
    THEN IF u16subtype = MESSAGE_AS4 \/ u16subtype = MESSAGE_AS4_LOCAL
         THEN ParseOk(NewBgp4mpHdrBuf(rest, TRUE), self)
         ELSE IF u16subtype = MESSAGE \/ u16subtype = MESSAGE_LOCAL
         THEN ParseOk(NewBgp4mpHdrBuf(rest, FALSE), self)
         ELSE ParseErr("unsupported MRT subtype", self)
    ELSE IF u16type = TABLE_DUMP
    THEN ParseErr("TABLE_DUMP not implemented", self)
    ELSE IF u16type = TABLE_DUMP_V2
    THEN IF u16subtype = PEER_INDEX_TABLE
         THEN ParseOk(NewRibIndexBuf(rest), self)
         ELSE ParseOk(NewRibEntryBuf(rest, u16subtype), self)
    ELSE ParseErr("unsupported MRT type", self)

\* bgp4mpHdrBuf.Parse
bgp4mpHdrBufParse(b4) ==
    IF b4.buf.n < 20
    THEN ParseErr("Not enough bytes in data slice to decode BGP4MP hdr", b4)
    ELSE
    LET peerAS == IF b4.isAS4 THEN SU32(b4.buf, 0) ELSE SU16(b4.buf, 0)
        localAS == IF b4.isAS4 THEN SU32(b4.buf, 4) ELSE SU16(b4.buf, 2)
        b1 == SFrom(b4.buf, IF b4.isAS4 THEN 8 ELSE 4)
        u16af == SU16(b1, 2)
        d1 == [b4.dest EXCEPT !.Peer_AS = peerAS, !.Local_AS = localAS,
                              !.InterfaceIndex = SU16(b1, 0),
                              !.AddressFamily = u16af]
    IN
    IF u16af = AFI_IP
    THEN \* buf[4:8], buf[8:12] are checked against cap, buf[12:] against len
         IF 12 > SCap(b1) \/ 12 > b1.n THEN ParsePanic([b4 EXCEPT !.buf = b1, !.dest = d1])
         ELSE LET d2 == [d1 EXCEPT !.Peer_IP = SBytes(SFrom(STo(b1, 8), 4)),
                                   !.Local_IP = SBytes(SFrom(STo(b1, 12), 8))]
                  b2 == SFrom(b1, 12)
              IN ParseOk(NewBgpHeaderBuf(b2, FALSE, b4.isAS4),
                         [b4 EXCEPT !.buf = b2, !.dest = d2])
    ELSE IF u16af = AFI_IP6
    THEN IF 36 > SCap(b1) \/ 36 > b1.n
         THEN ParsePanic([b4 EXCEPT !.buf = b1, !.dest = d1, !.isv6 = TRUE])
         ELSE LET d2 == [d1 EXCEPT !.Peer_IP = SBytes(SFrom(STo(b1, 20), 4)),
                                   !.Local_IP = SBytes(SFrom(STo(b1, 36), 20))]
                  b2 == SFrom(b1, 36)
              IN ParseOk(NewBgpHeaderBuf(b2, TRUE, b4.isAS4),
                         [b4 EXCEPT !.buf = b2, !.dest = d2, !.isv6 = TRUE])
    ELSE ParseErr("unsupported BGP4MP address family",
                  [b4 EXCEPT !.buf = b1, !.dest = d1])

\* bgpHeaderBuf.Parse
bgpHeaderBufParse(b) ==
    IF b.buf.n < 19 THEN ParseErr("not enough bytes to decode BGP header", b)
    ELSE ParseOk(NewBgpUpdateBuf(SFrom(b.buf, 19), b.isv6, b.isAS4),
                 [b EXCEPT !.dest = [Marker |-> SBytes(STo(b.buf, 16)),
                                     Length |-> SU16(b.buf, 16),
                                     Type |-> SAt(b.buf, 18)]])

\* The end of bgpUpdateBuf.Parse with the MP_UNREACH prefixes put before the
\* withdrawn routes of the body.
bgpUpdateBufParseNlriMpWdrFirst(b, b3, d1, uplen, wlen, attrlen, ra) ==
    IF ra.kind = "panic" THEN ParsePanic([b EXCEPT !.buf = b3, !.dest = d1])
    ELSE IF ra.kind = "err"
    THEN ParseErr(ra.err, [b EXCEPT !.buf = b3, !.dest = d1])
    ELSE
    LET b4 == SFrom(b3, attrlen)
        nlrilen == uplen - 4 - attrlen - wlen
        d2 == [d1 EXCEPT !.hasAttrs = TRUE, !.Attrs = ra.attrs,
                         !.hasAdvertized = Len(ra.mpadv) # 0,
                         !.AdvertizedRoutes = ra.mpadv,
                         !.hasWithdrawn = @ \/ Len(ra.mpwdr) # 0,
                         !.WithdrawnRoutes = ra.mpwdr \o @]
    IN
    IF nlrilen = 0 \/ nlrilen < 0
    THEN ParseOk(NilPbVal, [b EXCEPT !.buf = b4, !.dest = d2])
    ELSE IF nlrilen > SCap(b4) \/ nlrilen > b4.n
    THEN ParsePanic([b EXCEPT !.buf = b4, !.dest = d2])
    ELSE ParseOk(NilPbVal,
                 [b EXCEPT !.buf = SFrom(b4, nlrilen),
                           !.dest = [d2 EXCEPT !.hasAdvertized = TRUE,
                                               !.AdvertizedRoutes =
                                                   @ \o readPrefix(STo(b4, nlrilen),
                                                                   b.isv6)]])

\* bgpUpdateBuf.Parse from the return of readAttrs on: b3 is b.buf after the
\* attribute length, d1 the update so far, ra what readAttrs gave.
bgpUpdateBufParseNlri(b, b3, d1, uplen, wlen, attrlen, ra) ==
    IF ra.kind = "panic" THEN ParsePanic([b EXCEPT !.buf = b3, !.dest = d1])
    ELSE IF ra.kind = "err"
    THEN ParseErr(ra.err, [b EXCEPT !.buf = b3, !.dest = d1])
    ELSE
    LET b4 == SFrom(b3, attrlen)
        nlrilen == uplen - 4 - attrlen - wlen
        d2 == [d1 EXCEPT !.hasAttrs = TRUE, !.Attrs = ra.attrs]
        d3 == IF Len(ra.mpadv) # 0
              THEN [d2 EXCEPT !.hasAdvertized = TRUE, !.AdvertizedRoutes = ra.mpadv]
              ELSE d2
        d4 == IF Len(ra.mpwdr) # 0
              THEN [d3 EXCEPT !.hasWithdrawn = TRUE,
                              !.WithdrawnRoutes =
                                  IF d3.hasWithdrawn THEN @ \o ra.mpwdr ELSE ra.mpwdr]
              ELSE d3
    IN
    IF nlrilen = 0 \/ nlrilen < 0
    THEN ParseOk(NilPbVal, [b EXCEPT !.buf = b4, !.dest = d4])
    ELSE IF nlrilen > SCap(b4) \/ nlrilen > b4.n
    THEN ParsePanic([b EXCEPT !.buf = b4, !.dest = d4])
    ELSE
    LET nlrislice == readPrefix(STo(b4, nlrilen), b.isv6)
        d5 == [d4 EXCEPT !.hasAdvertized = TRUE,
                         !.AdvertizedRoutes =
                             IF d4.hasAdvertized THEN @ \o nlrislice ELSE nlrislice]
    IN ParseOk(NilPbVal, [b EXCEPT !.buf = SFrom(b4, nlrilen), !.dest = d5])

\* bgpUpdateBuf.Parse.  It returns (nil, nil) on success.
bgpUpdateBufParse(b) ==
    IF b.buf.n < 2
    THEN ParseErr("not enough bytes to parse withdrawn routes length", b)
    ELSE
    LET uplen == b.buf.n
        wlen == SU16(b.buf, 0)
    IN
    IF wlen # 0 /\ b.buf.n < wlen
    THEN ParseErr("not enough bytes for withdrawn routes", b)
    ELSE
    LET b1 == SFrom(b.buf, 2) IN
    \* b.buf[:wlen] is checked against cap, b.buf[wlen:] against len
    IF wlen # 0 /\ (wlen > SCap(b1) \/ wlen > b1.n)
    THEN ParsePanic([b EXCEPT !.buf = b1])
    ELSE
    LET d1 == IF wlen = 0 THEN b.dest
              ELSE [b.dest EXCEPT !.hasWithdrawn = TRUE,
                                  !.WithdrawnRoutes = readPrefix(STo(b1, wlen), b.isv6)]
        b2 == SFrom(b1, wlen)
    IN
    \* binary.BigEndian.Uint16(b.buf[:2]); b.buf = b.buf[2:]
    IF 2 > SCap(b2) \/ 2 > b2.n THEN ParsePanic([b EXCEPT !.buf = b2, !.dest = d1])
    ELSE
    LET attrlen == SU16(b2, 0)
        b3 == SFrom(b2, 2)
    IN
    IF attrlen = 0 THEN ParseOk(NilPbVal, [b EXCEPT !.buf = b3, !.dest = d1])
    ELSE IF b3.n < attrlen
    THEN ParseErr("not enough bytes for attributes", [b EXCEPT !.buf = b3, !.dest = d1])
    ELSE
    bgpUpdateBufParseNlri(b, b3, d1, uplen, wlen, attrlen,
                          readAttrs(STo(b3, attrlen), b.isAS4, b.isv6))

(***************************************************************************)
(* ribBuf: TABLE_DUMP_V2 records.                                          *)
(***************************************************************************)
\* parseRIBEntry, entryCount times.  Result: [kind, err, buf, routes].
RECURSIVE parseRIBEntries(_, _, _, _, _)
\* parseRIBEntry from the return of readAttrs on: b1 is the buffer at the
\* attributes, b2 after them, ra what readAttrs gave.
parseRIBEntryAttrs(buf, b1, b2, v6, pref, left, routes, ra) ==
    IF ra.kind = "panic"
    THEN [kind |-> "panic", err |-> "panic", buf |-> b1, routes |-> routes]
    ELSE IF ra.kind = "err"
    THEN [kind |-> "err", err |-> ra.err, buf |-> b2, routes |-> routes]
    ELSE parseRIBEntries(b2, v6, pref, left - 1,
             Append(routes, [Prefix |-> pref, PeerIndex |-> SU16(buf, 0),
                             Timestamp |-> SU32(buf, 2),
                             hasAttrs |-> ra.hasAttrs, Attrs |-> ra.attrs]))

parseRIBEntries(buf, v6, pref, left, routes) ==
    IF left = 0 THEN [kind |-> "ok", err |-> "nil", buf |-> buf, routes |-> routes]
    ELSE IF buf.n < 8
    THEN [kind |-> "err", err |-> "rib: Buffer too small to parse RIB entry header",
          buf |-> buf, routes |-> routes]
    ELSE
    LET attrLen == SU16(buf, 6)
        b1 == SFrom(buf, 8)
    IN
    IF b1.n < attrLen
    THEN [kind |-> "err", err |-> "rib: Buffer too small to parse BGP attributes",
          buf |-> b1, routes |-> routes]
    ELSE parseRIBEntryAttrs(buf, b1, SFrom(b1, attrLen), v6, pref, left, routes,
                            readAttrs(STo(b1, attrLen), TRUE, v6))

\* ribBuf.parseRIB after its loop over the entries; es is what the loop gave.
parseRIBRoutes(r, es) ==
    IF es.kind = "panic" THEN ParsePanic([r EXCEPT !.buf = es.buf])
    ELSE IF es.kind = "err"
    THEN ParseErr("Error parsing RIB entries", [r EXCEPT !.buf = es.buf])
    ELSE ParseOk(NilPbVal, [r EXCEPT !.buf = es.buf, !.dest.RouteEntry = es.routes])

\* ribBuf.parseRIB.  It returns (nil, nil) on success.
parseRIB(r) ==
    IF r.buf.n < 5 THEN ParseErr("rib: Buffer too small to read bitlen", r)
    ELSE
    LET bitlen == SAt(r.buf, 4)
        b1 == SFrom(r.buf, 5)
        bytelen == ((bitlen + 7) % 256) \div 8      \* int(bitlen+7)/8, sum in uint8
    IN
    IF bytelen > b1.n
    THEN ParseErr("Buffer too small to parse prefix", [r EXCEPT !.buf = b1])
    ELSE
    LET ipbuf == IF bytelen # 0
                 THEN CopyInto(IF r.isv6 THEN 16 ELSE 4,
                               ClearTrailingBits(SBytes(STo(b1, bytelen)), bitlen))
                 ELSE Zeros(IF r.isv6 THEN 16 ELSE 4)
        pref == [ip |-> ipbuf, mask |-> IF bytelen # 0 THEN bitlen ELSE 0]
        b2 == SFrom(b1, bytelen)
    IN
    IF b2.n < 2
    THEN ParseErr("rib: Buffer too small to read entry count", [r EXCEPT !.buf = b2])
    ELSE
    LET entryCount == SU16(b2, 0) IN
    parseRIBRoutes(r, parseRIBEntries(SFrom(b2, 2), r.isv6, pref, entryCount, <<>>))

\* parsePeerEntry, peerCount times.  Result: [kind, err, buf, peers].
RECURSIVE parsePeerEntries(_, _, _)
parsePeerEntries(buf, left, peers) ==
    IF left = 0 THEN [kind |-> "ok", err |-> "nil", buf |-> buf, peers |-> peers]
    ELSE IF buf.n < 1
    THEN [kind |-> "err", err |-> "rib: Buffer too small to read peer type",
          buf |-> buf, peers |-> peers]
    ELSE
    LET peerType == SAt(buf, 0)
        as4 == (peerType \div 2) % 2 = 1
        ipv6 == peerType % 2 = 1
        b1 == SFrom(buf, 1)
    IN
    IF b1.n < 4
    THEN [kind |-> "err", err |-> "rib: Buffer too small to read BGP id",
          buf |-> b1, peers |-> peers]
    ELSE
    LET b2 == SFrom(b1, 4)
        iplen == IF ipv6 THEN 16 ELSE 4
    IN
    IF b2.n < iplen
    THEN [kind |-> "err", err |-> "rib: Buffer too small to read peer ip",
          buf |-> b2, peers |-> peers]
    ELSE
    LET b3 == SFrom(b2, iplen)
        aslen == IF as4 THEN 4 ELSE 2
    IN
    \* r.buf[:4] / r.buf[:2] is checked against cap, r.buf[4:] / [2:] against len
    IF aslen > SCap(b3) \/ aslen > b3.n
    THEN [kind |-> "panic", err |-> "panic", buf |-> b3, peers |-> peers]
    ELSE parsePeerEntries(SFrom(b3, aslen), left - 1,
             Append(peers, [PeerId |-> SU32(b1, 0),
                            PeerAs |-> IF as4 THEN SU32(b3, 0) ELSE SU16(b3, 0),
                            PeerIp |-> SBytes(STo(b2, iplen))]))

\* ribBuf.parseIndexTable after its loop over the peers; ps is what the loop
\* gave.
parseIndexTablePeers(r, ps) ==
    IF ps.kind = "panic" THEN ParsePanic([r EXCEPT !.buf = ps.buf])
    ELSE IF ps.kind = "err" THEN ParseErr(ps.err, [r EXCEPT !.buf = ps.buf])
    ELSE LET self == [r EXCEPT !.buf = ps.buf, !.dest.PeerEntry = ps.peers]
         IN ParseOk(self, self)

\* ribBuf.parseIndexTable.  It returns the receiver itself.
parseIndexTable(r) ==
    IF r.buf.n < 6 THEN ParseErr("rib: Buffer too small to read view length", r)
    ELSE
    LET vLength == SU16(r.buf, 4)
        b1 == SFrom(r.buf, 6)
    IN
    IF b1.n < vLength
    THEN ParseErr("rib: Buffer too small to read view name", [r EXCEPT !.buf = b1])
    ELSE
    LET b2 == SFrom(b1, vLength) IN
    IF b2.n < 2
    THEN ParseErr("rib: Buffer too small to read peer count", [r EXCEPT !.buf = b2])
    ELSE
    parseIndexTablePeers(r, parsePeerEntries(SFrom(b2, 2), SU16(b2, 0), <<>>))

\* ribBuf.Parse
ribBufParse(r) == IF r.isIndex THEN parseIndexTable(r) ELSE parseRIB(r)

\* v.Parse() through the PbVal interface; a call on the nil interface panics.
PbParse(v) ==
    CASE v.type = "mrt"    -> mrtHhdrBufParse(v)
      [] v.type = "bgp4mp" -> bgp4mpHdrBufParse(v)
      [] v.type = "bgphdr" -> bgpHeaderBufParse(v)
      [] v.type = "bgpup"  -> bgpUpdateBufParse(v)
      [] v.type = "rib"    -> ribBufParse(v)
      [] OTHER             -> ParsePanic(v)

(***************************************************************************)
(* util.IpToRadixkey and util.PrefixTree.                                  *)
(* A key is a sequence of bits ("0"/"1" characters in the code).  The      *)
(* radix tree is the set of the keys inserted; LongestPrefix finds an      *)
(* entry exactly when some inserted key is a prefix of the argument.       *)
(***************************************************************************)
\* fmt "%08b"
Bits8(b) == [i \in 1..8 |-> (b \div Pow2(8 - i)) % 2]
ByteAnd(a, b) ==
    LET x == Bits8(a)
        y == Bits8(b)
    IN x[1]*y[1]*128 + x[2]*y[2]*64 + x[3]*y[3]*32 + x[4]*y[4]*16
       + x[5]*y[5]*8 + x[6]*y[6]*4 + x[7]*y[7]*2 + x[8]*y[8]

v4InV6Prefix == <<0, 0, 0, 0, 0, 0, 0, 0, 0, 0, 255, 255>>

\* net.IP.To4: the 4-byte form, or nil (<<>>) when the address is not IPv4.
To4(ip) ==
    IF Len(ip) = 4 THEN ip
    ELSE IF Len(ip) = 16 /\ SubSeq(ip, 1, 12) = v4InV6Prefix THEN SubSeq(ip, 13, 16)
    ELSE <<>>

\* net.IP.To16
To16(ip) ==
    IF Len(ip) = 4 THEN v4InV6Prefix \o ip
    ELSE IF Len(ip) = 16 THEN ip
    ELSE <<>>

\* net.CIDRMask(ones, bits)
CIDRMask(ones, bits) ==
    [i \in 1..(bits \div 8) |->
        IF ones >= 8 * i THEN 255
        ELSE IF ones <= 8 * (i - 1) THEN 0
        ELSE 256 - Pow2(8 - (ones - 8 * (i - 1)))]

\* net.IP.Mask
IPMask(ip0, mask0) ==
    LET mask == IF Len(mask0) = 16 /\ Len(ip0) = 4
                   /\ \A i \in 1..12 : mask0[i] = 255
                THEN SubSeq(mask0, 13, 16) ELSE mask0
        ip == IF Len(mask) = 4 /\ Len(ip0) = 16 /\ SubSeq(ip0, 1, 12) = v4InV6Prefix
              THEN SubSeq(ip0, 13, 16) ELSE ip0
    IN IF Len(ip) # Len(mask) THEN <<>>
       ELSE [i \in 1..Len(ip) |-> ByteAnd(ip[i], mask[i])]

RECURSIVE BitString(_)
BitString(ip) == IF ip = <<>> THEN <<>> ELSE Bits8(Head(ip)) \o BitString(Tail(ip))

\* A key that keeps the masked address at full length instead of cutting it
\* at the mask.
IpToRadixkeyFullLength(b, mask) ==
    IF Len(b) = 0 THEN [panic |-> FALSE, key |-> <<>>]
    ELSE IF To4(b) # <<>>
    THEN IF mask > 32 THEN [panic |-> FALSE, key |-> <<>>]
         ELSE [panic |-> FALSE,
               key |-> BitString(To4(IPMask(b, CIDRMask(mask, 32))))]
    ELSE IF mask > 128 THEN [panic |-> FALSE, key |-> <<>>]
         ELSE [panic |-> FALSE,
               key |-> BitString(To16(IPMask(b, CIDRMask(mask, 128))))]

\* IpToRadixkey(b, mask): [panic, key].  buffer.String()[:mask] panics when
\* the string is shorter than mask.
IpToRadixkey(b, mask) ==
    IF Len(b) = 0 THEN [panic |-> FALSE, key |-> <<>>]
    ELSE IF To4(b) # <<>>
    THEN IF mask > 32 THEN [panic |-> FALSE, key |-> <<>>]
         ELSE LET str == BitString(To4(IPMask(b, CIDRMask(mask, 32))))
              IN IF mask > Len(str) THEN [panic |-> TRUE, key |-> <<>>]
                 ELSE [panic |-> FALSE, key |-> SubSeq(str, 1, mask)]
    ELSE IF mask > 128 THEN [panic |-> FALSE, key |-> <<>>]
         ELSE LET str == BitString(To16(IPMask(b, CIDRMask(mask, 128))))
              IN IF mask > Len(str) THEN [panic |-> TRUE, key |-> <<>>]
                 ELSE [panic |-> FALSE, key |-> SubSeq(str, 1, mask)]

NewPrefixTree == {}

\* radix.Tree.LongestPrefix(k): found
LongestPrefixFound(rt, k) ==
    \E e \in rt : Len(e) <= Len(k) /\ SubSeq(k, 1, Len(e)) = e

\* PrefixTree.ContainsIpMask
ContainsIpMask(rt, ip, mask) == LongestPrefixFound(rt, IpToRadixkey(ip, mask).key)

(***************************************************************************)
(* MrtBufferStack: ParseHeaders, MrtToBGPCapturev2 and the accessors the   *)
(* filters use.                                                            *)
(***************************************************************************)
\* Scanner.Bytes: the last token, a slice of the scanner's buffer.
ScannerBytes(s) == Sl(s.buf, s.tokLo, s.tokN)

NilMbs == [MrthBuf |-> NilPbVal, Bgp4mpbuf |-> NilPbVal, Bgphbuf |-> NilPbVal,
           Bgpupbuf |-> NilPbVal, Ribbuf |-> NilPbVal]

\* ParseHeaders(data, false): [kind, err, mbs].  Each step takes the results
\* of the Parse calls before it: m of mrth.Parse(), p1 of bgp4h.Parse(),
\* p2 of bgph.Parse(), p3 of bgpup.Parse().
ParseHeadersFail(kind, err) == [kind |-> kind, err |-> err, mbs |-> NilMbs]

ParseHeadersUpdate(m, p1, p2, p3) ==
    IF p3.kind = "panic" THEN ParseHeadersFail("panic", "panic")
    ELSE IF p3.kind = "err"
    THEN ParseHeadersFail("err", "Failed parsing BGP update")
    ELSE \* a RIB index buffer returns itself: the three are one object
         LET same == p1.self.type = "rib" IN
         [kind |-> "ok", err |-> "nil",
          mbs |-> [MrthBuf |-> m.self,
                   Bgp4mpbuf |-> IF same THEN p3.self ELSE p1.self,
                   Bgphbuf |-> IF same THEN p3.self ELSE p2.self,
                   Bgpupbuf |-> p3.self,
                   Ribbuf |-> NilPbVal]]

ParseHeadersBgp(m, p1, p2) ==
    IF p2.kind = "panic" THEN ParseHeadersFail("panic", "panic")
    ELSE IF p2.kind = "err"
    THEN ParseHeadersFail("err", "Failed parsing BGP header")
    ELSE ParseHeadersUpdate(m, p1, p2, PbParse(p2.next))     \* bgpup.Parse()

ParseHeadersBgp4mp(m, p1) ==
    IF p1.kind = "panic" THEN ParseHeadersFail("panic", "panic")
    ELSE IF p1.kind = "err"
    THEN ParseHeadersFail("err", "Failed parsing BG4MP header")
    ELSE ParseHeadersBgp(m, p1, PbParse(p1.next))            \* bgph.Parse()

ParseHeadersMrt(m) ==
    IF m.kind = "err" THEN ParseHeadersFail("err", "Failed parsing MRT header")
    ELSE ParseHeadersBgp4mp(m, PbParse(m.next))              \* bgp4h.Parse()

ParseHeaders(data) == ParseHeadersMrt(mrtHhdrBufParse(NewMrtHdrBuf(data)))

\* ParseHeaders(data, true) after mrth.Parse() (m) and after the Parse of
\* what it returned (p1): the stack holds the MRT header and, as Ribbuf, the
\* value mrth.Parse() returned.
ParseHeadersRib(m, p1) ==
    IF p1.kind = "panic" THEN ParseHeadersFail("panic", "panic")
    ELSE IF p1.kind = "err"
    THEN ParseHeadersFail("err", "Failed parsing RIB header")
    ELSE [kind |-> "ok", err |-> "nil",
          mbs |-> [NilMbs EXCEPT !.MrthBuf = m.self, !.Ribbuf = p1.self]]

ParseHeadersRibMrt(m) ==
    IF m.kind = "err" THEN ParseHeadersFail("err", "Failed parsing MRT header")
    ELSE ParseHeadersRib(m, PbParse(m.next))

ParseHeadersInd(data) == ParseHeadersRibMrt(mrtHhdrBufParse(NewMrtHdrBuf(data)))

\* ParseRibHeaders(data, ind).  NewRIBMrtHdrBuf keeps ind in the header
\* buffer; no Parse method reads it.
ParseRibHeaders(data) == ParseHeadersRibMrt(mrtHhdrBufParse(NewMrtHdrBuf(data)))

NilCapture == <<>>

\* MrtToBGPCapturev2(data): [kind, err, capture]; capture is <<>> for nil.
\* Each step takes the results of the Parse calls before it, as in
\* ParseHeaders.
CaptureFail(kind, err) == [kind |-> kind, err |-> err, capture |-> NilCapture]

CaptureUpdate(m, p1, p3) ==
    IF p3.kind = "panic" THEN CaptureFail("panic", "panic")
    ELSE IF p3.kind = "err" THEN CaptureFail("err", "Failed parsing BGP Update")
    \* bgp4h.(pp.BGP4MPHeaderer), bgpup.(pp.BGPUpdater): type assertions
    ELSE IF p1.self.type # "bgp4mp" \/ p3.self.type # "bgpup"
    THEN CaptureFail("panic", "panic")
    ELSE [kind |-> "ok", err |-> "nil",
          capture |-> <<[Timestamp |-> m.self.dest.Timestamp,
                         Peer_AS |-> p1.self.dest.Peer_AS,
                         Local_AS |-> p1.self.dest.Local_AS,
                         InterfaceIndex |-> p1.self.dest.InterfaceIndex,
                         AddressFamily |-> p1.self.dest.AddressFamily,
                         Peer_IP |-> p1.self.dest.Peer_IP,
                         Local_IP |-> p1.self.dest.Local_IP,
                         Update |-> p3.self.dest]>>]

CaptureBgp(m, p1, p2) ==
    IF p2.kind = "panic" THEN CaptureFail("panic", "panic")
    ELSE IF p2.kind = "err" THEN CaptureFail("err", "Failed parsing BGP Header")
    ELSE CaptureUpdate(m, p1, PbParse(p2.next))

CaptureBgp4mp(m, p1) ==
    IF p1.kind = "panic" THEN CaptureFail("panic", "panic")
    ELSE IF p1.kind = "err" THEN CaptureFail("err", "Failed parsing BGP4MP header")
    ELSE CaptureBgp(m, p1, PbParse(p1.next))

CaptureMrt(m) ==
    IF m.kind = "err" THEN CaptureFail("err", "Failed parsing MRT header")
    ELSE CaptureBgp4mp(m, PbParse(m.next))

MrtToBGPCapturev2(data) == CaptureMrt(mrtHhdrBufParse(NewMrtHdrBuf(data)))

\* A path collapse that keeps the AS_SEQUENCE segments only.
RECURSIVE getASPathFromSeqsOnly(_)
getASPathFromSeqsOnly(segs) ==
    IF segs = <<>> THEN <<>>
    ELSE Head(segs).AsSeq \o getASPathFromSeqsOnly(Tail(segs))

RECURSIVE getASPathFromSegs(_)
getASPathFromSegs(segs) ==
    IF segs = <<>> THEN <<>>
    ELSE LET seg == Head(segs)
         IN (IF Len(seg.AsSeq) > 0 THEN seg.AsSeq
             ELSE IF Len(seg.AsSet) > 0 THEN seg.AsSet ELSE <<>>)
            \o getASPathFromSegs(Tail(segs))
getASPathFromAttrs(attrs) == getASPathFromSegs(attrs.AsPath)

\* The accessors give [kind, v]: kind "ok", "err" or "panic" (a failed type
\* assertion, an index out of range).  On a RIB stack they read Ribbuf.
IsRibStack(mbs) == mbs.Ribbuf.type # "nil"

RECURSIVE ribASPath(_)
ribASPath(entries) ==
    IF entries = <<>> THEN <<>>
    ELSE (IF Head(entries).hasAttrs THEN getASPathFromAttrs(Head(entries).Attrs)
          ELSE <<>>) \o ribASPath(Tail(entries))

GetASPath(mbs) ==
    IF IsRibStack(mbs)
    THEN IF mbs.Ribbuf.type # "rib" THEN [kind |-> "panic", v |-> <<>>]
         ELSE [kind |-> "ok", v |-> ribASPath(mbs.Ribbuf.dest.RouteEntry)]
    ELSE IF mbs.Bgpupbuf.type # "bgpup" THEN [kind |-> "panic", v |-> <<>>]
    ELSE IF ~mbs.Bgpupbuf.dest.hasAttrs THEN [kind |-> "err", v |-> <<>>]
    ELSE [kind |-> "ok", v |-> getASPathFromAttrs(mbs.Bgpupbuf.dest.Attrs)]

GetAdvertizedPrefixes(mbs) ==
    IF IsRibStack(mbs)
    THEN IF mbs.Ribbuf.type # "rib" THEN [kind |-> "panic", v |-> <<>>]
         \* rib.GetRouteEntry()[0]
         ELSE IF mbs.Ribbuf.dest.RouteEntry = <<>>
         THEN [kind |-> "panic", v |-> <<>>]
         ELSE [kind |-> "ok", v |-> <<mbs.Ribbuf.dest.RouteEntry[1].Prefix>>]
    ELSE IF mbs.Bgpupbuf.type # "bgpup" THEN [kind |-> "panic", v |-> <<>>]
    ELSE IF ~mbs.Bgpupbuf.dest.hasAdvertized THEN [kind |-> "err", v |-> <<>>]
    ELSE [kind |-> "ok", v |-> mbs.Bgpupbuf.dest.AdvertizedRoutes]

GetWithdrawnPrefixes(mbs) ==
    IF IsRibStack(mbs)
    THEN IF mbs.Ribbuf.type # "rib" THEN [kind |-> "panic", v |-> <<>>]
         ELSE [kind |-> "ok", v |-> <<>>]
    ELSE IF mbs.Bgpupbuf.type # "bgpup" THEN [kind |-> "panic", v |-> <<>>]
    ELSE IF ~mbs.Bgpupbuf.dest.hasWithdrawn THEN [kind |-> "err", v |-> <<>>]
    ELSE [kind |-> "ok", v |-> mbs.Bgpupbuf.dest.WithdrawnRoutes]

(***************************************************************************)
(* filter/mrtFilter.go.  A Filter value is [kind, loc, pt, asList]: kind   *)
(* "nil" (a nil func), "prefix" (PrefixFilter.filterBySeen, loc its        *)
(* prefixLoc, pt its tree) or "as" (an ASFilter method, loc its            *)
(* ASPosition).  Applying one gives [panic, pass].                         *)
(***************************************************************************)
AdvPrefix == 0
WdrPrefix == 1
AnyPrefix == 2
AS_SOURCE == 0
AS_DESTINATION == 1
AS_MIDPATH == 2
AS_ANYWHERE == 3

NilFilter == [kind |-> "nil", loc |-> 0, pt |-> {}, asList |-> <<>>]
NewASFilterFromSlice(aslist, pos) ==
    [kind |-> "as", loc |-> pos, pt |-> {}, asList |-> aslist]
\* NewPrefixFilterFromSlice: every prefix [ip, mask] is added to a new tree.
NewPrefixFilterFromSlice(prefs, loc) ==
    [kind |-> "prefix", loc |-> loc,
     pt |-> {IpToRadixkey(prefs[i].ip, prefs[i].mask).key : i \in 1..Len(prefs)},
     asList |-> <<>>]

AnyContained(rt, prefs) ==
    \E i \in 1..Len(prefs) : ContainsIpMask(rt, prefs[i].ip, prefs[i].mask % 256)

filterBySeen(pf, mbs) ==
    LET adv == GetAdvertizedPrefixes(mbs)
        wdr == GetWithdrawnPrefixes(mbs)
        useAdv == pf.loc = AdvPrefix \/ pf.loc = AnyPrefix
        useWdr == pf.loc = WdrPrefix \/ pf.loc = AnyPrefix
    IN IF useAdv /\ adv.kind = "panic" THEN [panic |-> TRUE, pass |-> FALSE]
       ELSE IF useAdv /\ adv.kind = "ok" /\ AnyContained(pf.pt, adv.v)
       THEN [panic |-> FALSE, pass |-> TRUE]
       ELSE IF useWdr /\ wdr.kind = "panic" THEN [panic |-> TRUE, pass |-> FALSE]
       ELSE IF useWdr /\ wdr.kind = "ok" /\ AnyContained(pf.pt, wdr.v)
       THEN [panic |-> FALSE, pass |-> TRUE]
       ELSE [panic |-> FALSE, pass |-> FALSE]

matchesOne(asList, comp) == \E i \in 1..Len(asList) : asList[i] = comp

\* FilterBySource, FilterByDest, FilterByMidPath, FilterByAnywhere
ASFilterApply(asf, mbs) ==
    LET r == GetASPath(mbs)
        path == r.v
        n == Len(path)
    IN IF r.kind = "panic" THEN [panic |-> TRUE, pass |-> FALSE]
       ELSE [panic |-> FALSE,
             pass |->
               CASE asf.loc = AS_SOURCE ->
                      r.kind = "ok" /\ n >= 1 /\ matchesOne(asf.asList, path[n])
                 [] asf.loc = AS_DESTINATION ->
                      r.kind = "ok" /\ n >= 1 /\ matchesOne(asf.asList, path[1])
                 [] asf.loc = AS_MIDPATH ->
                      r.kind = "ok" /\ n >= 3
                        /\ \E i \in 2..(n - 1) : matchesOne(asf.asList, path[i])
                 [] OTHER ->
                      r.kind = "ok" /\ n >= 1
                        /\ \E i \in 1..n : matchesOne(asf.asList, path[i])]

ApplyFilter(fil, mbs) ==
    IF fil.kind = "prefix" THEN filterBySeen(fil, mbs) ELSE ASFilterApply(fil, mbs)

\* A FilterAll that takes a nil filter for the end of the list.
RECURSIVE FilterAllUntilNil(_, _)
FilterAllUntilNil(filters, mbs) ==
    IF filters = <<>> \/ Head(filters).kind = "nil"
    THEN [panic |-> FALSE, pass |-> TRUE]
    ELSE LET r == ApplyFilter(Head(filters), mbs) IN
         IF r.panic \/ ~r.pass THEN r
         ELSE FilterAllUntilNil(Tail(filters), mbs)

\* A FilterAll that looks at the first filter only.
FilterFirstOnly(filters, mbs) ==
    IF filters = <<>> \/ Head(filters).kind = "nil"
    THEN [panic |-> FALSE, pass |-> TRUE]
    ELSE ApplyFilter(Head(filters), mbs)

\* FilterAll(filters, mbs): [panic, pass].
RECURSIVE FilterAll(_, _)
FilterAll(filters, mbs) ==
    IF filters = <<>> THEN [panic |-> FALSE, pass |-> TRUE]
    ELSE LET fil == Head(filters) IN
         IF fil.kind = "nil" THEN FilterAll(Tail(filters), mbs)
         ELSE LET r == ApplyFilter(fil, mbs) IN
              IF r.panic THEN r
              ELSE IF ~r.pass THEN [panic |-> FALSE, pass |-> FALSE]
              ELSE FilterAll(Tail(filters), mbs)

(***************************************************************************)
(* fileutil/filterfile.go.  A FilterFile is [MonitoredPrefixes, SourceASes, *)
(* DestASes, MidPathASes, AnywhereASes]; a monitored prefix is              *)
(* [ok, ip, mask]: ok is FALSE for a string that does not parse, ip is the  *)
(* 16-byte result of net.ParseIP.  getFilters gives [err, filters].         *)
(***************************************************************************)
getFilters(f) ==
    IF Len(f.MonitoredPrefixes) > 0
       /\ \E i \in 1..Len(f.MonitoredPrefixes) : ~f.MonitoredPrefixes[i].ok
    THEN [err |-> "can not create prefix filter from conf", filters |-> <<>>]
    ELSE [err |-> "nil",
          filters |->
            (IF Len(f.MonitoredPrefixes) > 0
             THEN <<NewPrefixFilterFromSlice(f.MonitoredPrefixes, AdvPrefix)>>
             ELSE <<>>)
            \o (IF Len(f.SourceASes) > 0
                THEN <<NewASFilterFromSlice(f.SourceASes, AS_SOURCE)>> ELSE <<>>)
            \o (IF Len(f.DestASes) > 0
                THEN <<NewASFilterFromSlice(f.SourceASes, AS_DESTINATION)>> ELSE <<>>)
            \o (IF Len(f.MidPathASes) > 0
                THEN <<NewASFilterFromSlice(f.SourceASes, AS_MIDPATH)>> ELSE <<>>)
            \o (IF Len(f.AnywhereASes) > 0
                THEN <<NewASFilterFromSlice(f.SourceASes, AS_ANYWHERE)>> ELSE <<>>)]

(***************************************************************************)
(* util/pbfile.go: the footer and the record framing of a record file.     *)
(***************************************************************************)
magicbytes == 118864
RecordFile_FlatFooted == 1

\* strconv / encoding/json decimal form of an unsigned integer, as bytes.
RECURSIVE Digits(_)
Digits(n) == IF n < 10 THEN <<48 + n>> ELSE Digits(n \div 10) \o <<48 + (n % 10)>>

IsDigit(c) == c >= 48 /\ c <= 57
RECURSIVE DigitRun(_, _)
\* the length of the run of digits of b that starts at position i
DigitRun(b, i) == IF i <= Len(b) /\ IsDigit(b[i]) THEN 1 + DigitRun(b, i + 1) ELSE 0
RECURSIVE DigitsValue(_)
DigitsValue(d) == IF d = <<>> THEN 0
                  ELSE DigitsValue(SubSeq(d, 1, Len(d) - 1)) * 10 + (d[Len(d)] - 48)

\* The file of the model is "/f": filepath.Dir gives "/", filepath.Base "f".
\* {"Numentries":
JsonNumentries == <<123, 34, 78, 117, 109, 101, 110, 116, 114, 105, 101, 115, 34, 58>>
\* ,"Filever":
JsonFilever == <<44, 34, 70, 105, 108, 101, 118, 101, 114, 34, 58>>
\* ,"Filedir":"/","Filename":"f","Sections":null}
JsonRest == <<44, 34, 70, 105, 108, 101, 100, 105, 114, 34, 58, 34, 47, 34, 44, 34, 70, 105, 108, 101, 110, 97, 109, 101, 34, 58, 34, 102, 34, 44, 34, 83, 101, 99, 116, 105, 111, 110, 115, 34, 58, 110, 117, 108, 108, 125>>

\* json.Marshal(Footer)
FooterJSON(foot) ==
    JsonNumentries \o Digits(foot.Numentries) \o JsonFilever
        \o Digits(foot.Filever) \o JsonRest

(***************************************************************************)
(* ParseFooter: json.Unmarshal(a, &Footer{}).  The document is first       *)
(* checked against the JSON grammar as a whole; then it is decoded into    *)
(* the struct: an object key selects the field whose name it equals under  *)
(* case folding, other keys are skipped with their values, null leaves a   *)
(* field alone, a later value of a key replaces an earlier one, and a      *)
(* value that does not fit the type of its field (a string for a number, a *)
(* number with a sign, a fraction or an exponent or out of the range of    *)
(* the unsigned type, ...) is an UnmarshalTypeError; decoding goes on, and *)
(* the error is returned at the end.  ParseFooter returns no footer with   *)
(* either kind of error.                                                   *)
(* The parsers below take the document a and a position i (from 1) and     *)
(* return [ok, pos, te, ...]: ok the grammar is met, pos the position      *)
(* behind the value, te a type error was met.                              *)
(***************************************************************************)
\* a[i], or -1 behind the end
JsonAt(a, i) == IF i >= 1 /\ i <= Len(a) THEN a[i] ELSE -1

\* white space: space, \t, \n, \r
RECURSIVE JsonSkipWs(_, _)
JsonSkipWs(a, i) ==
    IF JsonAt(a, i) \in {32, 9, 10, 13} THEN JsonSkipWs(a, i + 1) ELSE i

\* The case folding of a key: letters to upper case; the long s (U+017F)
\* to S and the Kelvin sign (U+212A) to K, what else folds to an ASCII
\* letter; 128 stands for every other character that is not ASCII.
JsonFoldAscii(c) == IF c >= 97 /\ c <= 122 THEN c - 32 ELSE c
JsonFoldRune(cp) == IF cp < 128 THEN JsonFoldAscii(cp)
                    ELSE IF cp = 383 THEN 83
                    ELSE IF cp = 8490 THEN 75
                    ELSE 128

JsonHex(c) == IF c >= 48 /\ c <= 57 THEN c - 48
              ELSE IF c >= 97 /\ c <= 102 THEN c - 87
              ELSE IF c >= 65 /\ c <= 70 THEN c - 55
              ELSE -1

\* One character of a string at position i: [n, c], n the bytes it takes
\* (0: a syntax error, a control character or an unknown escape) and c
\* the character, folded.
JsonStringStep(a, i) ==
    LET c == JsonAt(a, i)
        e == JsonAt(a, i + 1)
        h == [k \in 1..4 |-> JsonHex(JsonAt(a, i + 1 + k))]
    IN IF c < 32 THEN [n |-> 0, c |-> 0]
       ELSE IF c = 92
       THEN IF e \in {34, 92, 47} THEN [n |-> 2, c |-> e]
            ELSE IF e = 98 THEN [n |-> 2, c |-> 8]
            ELSE IF e = 102 THEN [n |-> 2, c |-> 12]
            ELSE IF e = 110 THEN [n |-> 2, c |-> 10]
            ELSE IF e = 114 THEN [n |-> 2, c |-> 13]
            ELSE IF e = 116 THEN [n |-> 2, c |-> 9]
            ELSE IF e = 117 /\ \A k \in 1..4 : h[k] >= 0
            THEN [n |-> 6,
                  c |-> JsonFoldRune(((h[1] * 16 + h[2]) * 16 + h[3]) * 16 + h[4])]
            ELSE [n |-> 0, c |-> 0]
       ELSE IF c = 197 /\ e = 191 THEN [n |-> 2, c |-> 83]
       ELSE IF c = 226 /\ e = 132 /\ JsonAt(a, i + 2) = 170 THEN [n |-> 3, c |-> 75]
       ELSE [n |-> 1, c |-> JsonFoldAscii(c)]

\* A string from behind its opening quote: [ok, pos, key], key the folded
\* characters.
RECURSIVE JsonString(_, _, _)
JsonStringNext(a, i, acc, st) ==
    IF st.n = 0 THEN [ok |-> FALSE, pos |-> i, key |-> acc]
    ELSE JsonString(a, i + st.n, Append(acc, st.c))
JsonString(a, i, acc) ==
    IF JsonAt(a, i) = 34 THEN [ok |-> TRUE, pos |-> i + 1, key |-> acc]
    ELSE JsonStringNext(a, i, acc, JsonStringStep(a, i))

\* A number: [ok, pos, plain, digits].  plain: no sign, fraction or
\* exponent, the only form strconv.ParseUint takes; digits: its digits.
JsonNumber(a, i) ==
    LET j == IF JsonAt(a, i) = 45 THEN i + 1 ELSE i
        intEnd == IF JsonAt(a, j) = 48 THEN j + 1 ELSE j + DigitRun(a, j)
        nfrac == DigitRun(a, intEnd + 1)
        hasFrac == JsonAt(a, intEnd) = 46
        fracEnd == IF hasFrac THEN intEnd + 1 + nfrac ELSE intEnd
        hasExp == JsonAt(a, fracEnd) \in {101, 69}
        k == IF JsonAt(a, fracEnd + 1) \in {43, 45} THEN fracEnd + 2 ELSE fracEnd + 1
        nexp == DigitRun(a, k)
        expEnd == IF hasExp THEN k + nexp ELSE fracEnd
    IN IF intEnd = j \/ (hasFrac /\ nfrac = 0) \/ (hasExp /\ nexp = 0)
       THEN [ok |-> FALSE, pos |-> i, plain |-> FALSE, digits |-> <<>>]
       ELSE [ok |-> TRUE, pos |-> expEnd, plain |-> j = i /\ expEnd = intEnd,
             digits |-> SubSeq(a, j, intEnd - 1)]

\* d <= m for two digit strings without leading zeros
RECURSIVE DigitsLeq(_, _)
DigitsLeq(d, m) ==
    IF Len(d) # Len(m) THEN Len(d) < Len(m)
    ELSE IF d = <<>> THEN TRUE
    ELSE IF Head(d) # Head(m) THEN Head(d) < Head(m)
    ELSE DigitsLeq(Tail(d), Tail(m))

\* The largest value of an unsigned type: 65535, 4294967295,
\* 18446744073709551615.
JsonMaxUint(ty) ==
    IF ty = "uint16" THEN <<54, 53, 53, 51, 53>>
    ELSE IF ty = "uint32" THEN <<52, 50, 57, 52, 57, 54, 55, 50, 57, 53>>
    ELSE <<49, 56, 52, 52, 54, 55, 52, 52, 48, 55, 51, 55, 48, 57, 53, 53, 49, 54, 49, 53>>

JsonUints == {"uint16", "uint32", "uint64"}
JsonStructs == {"Footer", "Section", "Offset"}
JsonSlices == {"[]Section", "[]Offset"}
JsonElemType(ty) == IF ty = "[]Section" THEN "Section" ELSE "Offset"

\* The fields of Footer, Section and Offset: the field name in upper case
\* (NUMENTRIES, FILEVER, FILEDIR, FILENAME, SECTIONS; COMPRESSED, SECNUM,
\* START_OFF, END_OFF, OFFSETS; RECNUM, OFF) and the type of the field.
JsonFields(ty) ==
    IF ty = "Footer" THEN
        { [name |-> <<78, 85, 77, 69, 78, 84, 82, 73, 69, 83>>, ty |-> "uint64"],
          [name |-> <<70, 73, 76, 69, 86, 69, 82>>, ty |-> "uint16"],
          [name |-> <<70, 73, 76, 69, 68, 73, 82>>, ty |-> "string"],
          [name |-> <<70, 73, 76, 69, 78, 65, 77, 69>>, ty |-> "string"],
          [name |-> <<83, 69, 67, 84, 73, 79, 78, 83>>, ty |-> "[]Section"] }
    ELSE IF ty = "Section" THEN
        { [name |-> <<67, 79, 77, 80, 82, 69, 83, 83, 69, 68>>, ty |-> "bool"],
          [name |-> <<83, 69, 67, 78, 85, 77>>, ty |-> "uint32"],
          [name |-> <<83, 84, 65, 82, 84, 95, 79, 70, 70>>, ty |-> "uint64"],
          [name |-> <<69, 78, 68, 95, 79, 70, 70>>, ty |-> "uint64"],
          [name |-> <<79, 70, 70, 83, 69, 84, 83>>, ty |-> "[]Offset"] }
    ELSE IF ty = "Offset" THEN
        { [name |-> <<82, 69, 67, 78, 85, 77>>, ty |-> "uint64"],
          [name |-> <<79, 70, 70>>, ty |-> "uint64"] }
    ELSE {}

\* The type a value under key is decoded into: "skip" for a key that names
\* no field.
JsonFieldType(ty, key) ==
    IF \E f \in JsonFields(ty) : f.name = key
    THEN (CHOOSE f \in JsonFields(ty) : f.name = key).ty
    ELSE "skip"

ZeroFooter == [Numentries |-> 0, Filever |-> 0]
JsonFail == [ok |-> FALSE, pos |-> 0, te |-> FALSE, num |-> <<>>, foot |-> ZeroFooter]
JsonDone(pos, te, num, foot) ==
    [ok |-> TRUE, pos |-> pos, te |-> te, num |-> num, foot |-> foot]

\* NUMENTRIES, FILEVER
JsonSetField(foot, key, num) ==
    IF num = <<>> THEN foot
    ELSE IF key = <<78, 85, 77, 69, 78, 84, 82, 73, 69, 83>>
    THEN [foot EXCEPT !.Numentries = DigitsValue(num[1])]
    ELSE IF key = <<70, 73, 76, 69, 86, 69, 82>>
    THEN [foot EXCEPT !.Filever = DigitsValue(num[1])]
    ELSE foot

RECURSIVE JsonValue(_, _, _, _)
RECURSIVE JsonMembers(_, _, _, _, _)
RECURSIVE JsonElems(_, _, _, _)

\* The members of an object of type ty from position i, behind "{" or ",":
\* "}" may follow "{" only.  k is the key, v its value, r the members that
\* follow.
JsonMemberRest(v, r) ==
    IF ~r.ok THEN JsonFail ELSE JsonDone(r.pos, v.te \/ r.te, <<>>, r.foot)
JsonMemberNext(a, v, m, ty, foot) ==
    IF JsonAt(a, m) = 125 THEN JsonDone(m + 1, v.te, <<>>, foot)
    ELSE IF JsonAt(a, m) = 44
    THEN JsonMemberRest(v, JsonMembers(a, JsonSkipWs(a, m + 1), ty, foot, FALSE))
    ELSE JsonFail
JsonMemberValue(a, k, v, ty, foot) ==
    IF ~v.ok THEN JsonFail
    ELSE JsonMemberNext(a, v, JsonSkipWs(a, v.pos), ty,
                        IF ty = "Footer" THEN JsonSetField(foot, k.key, v.num)
                        ELSE foot)
JsonMemberColon(a, k, j, ty, foot) ==
    IF JsonAt(a, j) # 58 THEN JsonFail
    ELSE JsonMemberValue(a, k, JsonValue(a, j + 1, JsonFieldType(ty, k.key), foot),
                         ty, foot)
JsonMemberKey(a, k, ty, foot) ==
    IF ~k.ok THEN JsonFail
    ELSE JsonMemberColon(a, k, JsonSkipWs(a, k.pos), ty, foot)
JsonMembers(a, i, ty, foot, first) ==
    IF first /\ JsonAt(a, i) = 125 THEN JsonDone(i + 1, FALSE, <<>>, foot)
    ELSE IF JsonAt(a, i) # 34 THEN JsonFail
    ELSE JsonMemberKey(a, JsonString(a, i + 1, <<>>), ty, foot)

\* The elements of an array of ety from position i, behind "[" or ",".
JsonElemRest(v, r) ==
    IF ~r.ok THEN JsonFail ELSE JsonDone(r.pos, v.te \/ r.te, <<>>, ZeroFooter)
JsonElemNext(a, v, m, ety) ==
    IF JsonAt(a, m) = 93 THEN JsonDone(m + 1, v.te, <<>>, ZeroFooter)
    ELSE IF JsonAt(a, m) = 44
    THEN JsonElemRest(v, JsonElems(a, JsonSkipWs(a, m + 1), ety, FALSE))
    ELSE JsonFail
JsonElemValue(a, v, ety) ==
    IF ~v.ok THEN JsonFail ELSE JsonElemNext(a, v, JsonSkipWs(a, v.pos), ety)
JsonElems(a, i, ety, first) ==
    IF first /\ JsonAt(a, i) = 93 THEN JsonDone(i + 1, FALSE, <<>>, ZeroFooter)
    ELSE JsonElemValue(a, JsonValue(a, i, ety, ZeroFooter), ety)

\* A value decoded into type ty: [ok, pos, te, num, foot]; num is <<d>> for
\* a number d that fits an unsigned ty, foot the footer decoded so far.
JsonObject(r, ty) ==
    IF ~r.ok THEN JsonFail
    ELSE JsonDone(r.pos, r.te \/ ty \notin JsonStructs \cup {"skip"}, <<>>, r.foot)
JsonArray(r, ty, foot) ==
    IF ~r.ok THEN JsonFail
    ELSE JsonDone(r.pos, r.te \/ ty \notin JsonSlices \cup {"skip"}, <<>>, foot)
JsonText(r, ty, foot) ==
    IF ~r.ok THEN JsonFail
    ELSE JsonDone(r.pos, ty \notin {"string", "skip"}, <<>>, foot)
JsonNumeric(r, ty, foot) ==
    LET fits == r.plain /\ DigitsLeq(r.digits, JsonMaxUint(ty))
    IN IF ~r.ok THEN JsonFail
       ELSE IF ty \in JsonUints
       THEN JsonDone(r.pos, ~fits, IF fits THEN <<r.digits>> ELSE <<>>, foot)
       ELSE JsonDone(r.pos, ty # "skip", <<>>, foot)
JsonValueAt(a, i, c, ty, foot) ==
    IF c = 123
    THEN JsonObject(JsonMembers(a, JsonSkipWs(a, i + 1),
                                IF ty \in JsonStructs THEN ty ELSE "skip", foot, TRUE),
                    ty)
    ELSE IF c = 91
    THEN JsonArray(JsonElems(a, JsonSkipWs(a, i + 1),
                             IF ty \in JsonSlices THEN JsonElemType(ty) ELSE "skip",
                             TRUE),
                   ty, foot)
    ELSE IF c = 34 THEN JsonText(JsonString(a, i + 1, <<>>), ty, foot)
    ELSE IF c = 45 \/ IsDigit(c) THEN JsonNumeric(JsonNumber(a, i), ty, foot)
    ELSE IF SubSeq(a, i, Min(i + 3, Len(a))) = <<116, 114, 117, 101>>
    THEN JsonDone(i + 4, ty \notin {"bool", "skip"}, <<>>, foot)
    ELSE IF SubSeq(a, i, Min(i + 4, Len(a))) = <<102, 97, 108, 115, 101>>
    THEN JsonDone(i + 5, ty \notin {"bool", "skip"}, <<>>, foot)
    ELSE IF SubSeq(a, i, Min(i + 3, Len(a))) = <<110, 117, 108, 108>>
    THEN JsonDone(i + 4, FALSE, <<>>, foot)
    ELSE JsonFail
JsonValueFrom(a, i, ty, foot) == JsonValueAt(a, i, JsonAt(a, i), ty, foot)
JsonValue(a, i0, ty, foot) == JsonValueFrom(a, JsonSkipWs(a, i0), ty, foot)

\* ParseFooter(a): [err, foot]
ParseFooterDecoded(a, v) ==
    IF v.ok /\ JsonSkipWs(a, v.pos) = Len(a) + 1 /\ ~v.te
    THEN [err |-> "nil", foot |-> v.foot]
    ELSE [err |-> "json", foot |-> ZeroFooter]
ParseFooter(a) == ParseFooterDecoded(a, JsonValue(a, 1, "Footer", ZeroFooter))

\* MarshalBytes: [footer string][its length][magic number]
MarshalBytes(foot) ==
    LET jb == FooterJSON(foot)
    IN jb \o PutUint32(Len(jb)) \o PutUint32(magicbytes)

\* What RecordFile.Write hands to its writer for b.
RecordBytes(b) == PutUint32(Len(b)) \o b

\* A uint32 read big-endian at position i of b, as its two 16-bit halves.
U32Hi(b, i) == BEUint16(b, i)
U32Lo(b, i) == BEUint16(b, i + 2)
\* int64(v) > n for the uint32 v at position i of b and 0 <= n < 2^31.
U32Exceeds(b, i, n) ==
    U32Hi(b, i) >= 32768 \/ U32Hi(b, i) * 65536 + U32Lo(b, i) > n

\* splitRecord: [advance, token, panic]; the token is [isNil, bytes].
\* pbsize+4 is computed in uint32 and wraps: for pbsize >= 0xfffffffc it is
\* 0..3, both guards pass and data[4 : pbsize+4] is out of range.  int is
\* 64 bits wide, so int(pbsize+4) is never negative.
splitRecord(data, capData, atEOF) ==
    IF capData < 4 \/ Len(data) < 4
    THEN [advance |-> 0, token |-> NilToken, panic |-> FALSE]
    ELSE LET lo4 == (U32Lo(data, 1) + 4) % 65536
             hi4 == (U32Hi(data, 1) + (U32Lo(data, 1) + 4) \div 65536) % 65536
             tot == hi4 * 65536 + lo4
         IN IF hi4 >= 32768 \/ capData < tot \/ Len(data) < tot
            THEN [advance |-> 0, token |-> NilToken, panic |-> FALSE]
            ELSE IF tot < 4
            THEN [advance |-> 0, token |-> NilToken, panic |-> TRUE]
            ELSE [advance |-> tot, token |-> Token(SubSeq(data, 5, tot)),
                  panic |-> FALSE]

(***************************************************************************)
(* The record-file object and the operating-system objects under it.       *)
(* rf = [footed, fp, writer, scanner, entries, sz, Footer, footoff]:       *)
(*   fp       0 for nil, else an index into hs;                            *)
(*   writer   <<>> for nil, else <<[h, buf, err, size]>>, a bufio.Writer   *)
(*            of that size on handle h with buf not yet flushed;           *)
(*   scanner  <<>> for nil, else <<[h, data, err]>>, the bufio.Scanner     *)
(*            over the bufio.Reader on handle h: data is what they have    *)
(*            read and not yet consumed;                                   *)
(*   Footer   <<>> for nil, else <<[Numentries, Filever]>>.                *)
(***************************************************************************)
NewRecordFile(footed) ==
    [footed |-> footed, fp |-> 0, writer |-> <<>>, scanner |-> <<>>,
     entries |-> 0, sz |-> 0, Footer |-> <<>>, footoff |-> 0]

NoCall == [op |-> "none", err |-> "nil", wr |-> FALSE, nw |-> 0, nx |-> 0]

RfIdle == /\ fs = [exists |-> FALSE, data |-> <<>>]
          /\ hs = <<>>
          /\ rf = NewRecordFile(FALSE)
          /\ last = NoCall
          /\ written = <<>>
          /\ rftoks = <<>>

\* os.File.Write of b at offset off of a file holding data.
WriteAt(data, off, b) ==
    [i \in 1..Max(Len(data), off + Len(b)) |->
        IF i > off /\ i <= off + Len(b) THEN b[i - off]
        ELSE IF i <= Len(data) THEN data[i] ELSE 0]

\* bufio.Writer.Flush of writer w: [w, hs, data].
Flush(w, h, data) ==
    IF w.err # "nil" \/ w.buf = <<>> THEN [w |-> w, hs |-> h, data |-> data]
    ELSE IF ~h[w.h].open
    THEN [w |-> [w EXCEPT !.err = "file already closed"], hs |-> h, data |-> data]
    ELSE [w |-> [w EXCEPT !.buf = <<>>],
          hs |-> [h EXCEPT ![w.h].off = @ + Len(w.buf)],
          data |-> WriteAt(data, h[w.h].off, w.buf)]

\* bufio.Writer.Write(b) on writer w: [w, hs, data, err].  While b does not
\* fit in what is left of the buffer: an empty buffer is passed by and b
\* goes to the file in one Write; else the buffer is filled up and flushed.
RECURSIVE BufioWrite(_, _, _, _)
BufioWrite(w, b, h, data) ==
    IF w.err # "nil" THEN [w |-> w, hs |-> h, data |-> data, err |-> w.err]
    ELSE IF Len(b) > w.size - Len(w.buf)
    THEN IF w.buf = <<>>
         THEN IF ~h[w.h].open
              THEN [w |-> [w EXCEPT !.err = "file already closed"], hs |-> h,
                    data |-> data, err |-> "file already closed"]
              ELSE [w |-> w, hs |-> [h EXCEPT ![w.h].off = @ + Len(b)],
                    data |-> WriteAt(data, h[w.h].off, b), err |-> "nil"]
         ELSE LET n == w.size - Len(w.buf)
                  fl == Flush([w EXCEPT !.buf = @ \o SubSeq(b, 1, n)], h, data)
              IN BufioWrite(fl.w, SubSeq(b, n + 1, Len(b)), fl.hs, fl.data)
    ELSE [w |-> [w EXCEPT !.buf = @ \o b], hs |-> h, data |-> data, err |-> "nil"]

\* bufio.NewWriter / bufio.NewWriterSize on handle id.
defaultBufSize == 4096
NewWriterSize(id, size) ==
    [h |-> id, buf |-> <<>>, err |-> "nil",
     size |-> IF size <= 0 THEN defaultBufSize ELSE size]

\* The end of ReadFooter: pf is what ParseFooter made of the footer bytes.
ReadFooterParsed(pf, footof, fsz) ==
    [err |-> pf.err,
     foot |-> IF pf.err = "nil" THEN <<pf.foot>> ELSE <<>>,
     footoff |-> footof, off |-> footof + fsz]

\* FootedRecordFile.ReadFooter through handle fp on a file holding data:
\* [err, foot, footoff, off]; footoff is the value f.footoff is left with,
\* off the position the handle is left at.  The errors of the two
\* binary.Read calls are ignored: through a handle that cannot be read the
\* magic number stays 0.
ReadFooter(f, h, data) ==
    LET size == Len(data) IN
    IF f.fp = 0
    THEN [err |-> "errfile", foot |-> <<>>, footoff |-> f.footoff, off |-> 0]
    ELSE IF ~h[f.fp].open
    THEN [err |-> "file already closed", foot |-> <<>>, footoff |-> f.footoff,
          off |-> h[f.fp].off]
    ELSE IF size < 4
    THEN [err |-> "seek", foot |-> <<>>, footoff |-> f.footoff, off |-> h[f.fp].off]
    ELSE IF ~h[f.fp].rd
    THEN [err |-> "errmagic", foot |-> <<>>, footoff |-> f.footoff, off |-> size - 4]
    ELSE IF SubSeq(data, size - 3, size) # PutUint32(magicbytes)
    THEN [err |-> "errmagic", foot |-> <<>>, footoff |-> f.footoff, off |-> size]
    ELSE IF size < 8
    THEN [err |-> "seek", foot |-> <<>>, footoff |-> f.footoff, off |-> size]
    ELSE
    LET off == size - 8 IN
    IF SubSeq(data, size - 7, size - 4) = PutUint32(0)
          \/ U32Exceeds(data, size - 7, off)
    THEN [err |-> "errnofoot", foot |-> <<>>, footoff |-> f.footoff, off |-> size - 4]
    ELSE
    LET fsz == BEUint32(data, size - 7)
        footof == size - (fsz + 8)
    IN ReadFooterParsed(ParseFooter(SubSeq(data, footof + 1, footof + fsz)),
                        footof, fsz)

\* An open that does not look at p.fp: it opens again over an open handle.
OpenIgnoringOpenHandle(p, h, f, openmode, readersize, writersize) ==
    IF readersize < 0 \/ writersize < 0
    THEN [err |-> "errbufsiz", created |-> FALSE, rf |-> p, hs |-> h, fs |-> f]
    ELSE IF openmode = "write"
    THEN LET nh == IF f.exists
                   THEN [open |-> TRUE, off |-> 0, rd |-> TRUE, wr |-> TRUE]
                   ELSE [open |-> TRUE, off |-> 0, rd |-> FALSE, wr |-> TRUE]
             id == Len(h) + 1
         IN [err |-> "nil", created |-> ~f.exists,
             rf |-> [p EXCEPT !.fp = id,
                              !.writer = <<NewWriterSize(id, writersize)>>],
             hs |-> Append(h, nh),
             fs |-> [f EXCEPT !.exists = TRUE]]
    ELSE IF ~f.exists
    THEN [err |-> "no such file", created |-> FALSE, rf |-> p, hs |-> h, fs |-> f]
    ELSE LET id == Len(h) + 1
         IN [err |-> "nil", created |-> FALSE,
             rf |-> [p EXCEPT !.fp = id,
                              !.scanner = <<[h |-> id, data |-> <<>>, err |-> "nil"]>>],
             hs |-> Append(h, [open |-> TRUE, off |-> 0, rd |-> TRUE, wr |-> FALSE]),
             fs |-> f]

\* OpenWithBufferSizes(p, readersize, writersize, openmode):
\* [err, created, rf, hs, fs].  A negative size is errbufsiz, also on an
\* open file.  The size of the reader cannot be seen: the Scanner asks for
\* 4096 bytes, a file is shorter, and a reader of any size answers with one
\* Read of the handle that delivers what is left of the file.
OpenWithBufferSizes(p, h, f, openmode, readersize, writersize) ==
    IF p.fp # 0 /\ ~(readersize < 0 \/ writersize < 0)
    THEN [err |-> "errOpen", created |-> FALSE, rf |-> p, hs |-> h, fs |-> f]
    ELSE
    IF readersize < 0 \/ writersize < 0
    THEN [err |-> "errbufsiz", created |-> FALSE, rf |-> p, hs |-> h, fs |-> f]
    ELSE IF openmode = "write"
    THEN LET nh == IF f.exists
                   THEN [open |-> TRUE, off |-> 0, rd |-> TRUE, wr |-> TRUE]
                   ELSE [open |-> TRUE, off |-> 0, rd |-> FALSE, wr |-> TRUE]
             id == Len(h) + 1
         IN [err |-> "nil", created |-> ~f.exists,
             rf |-> [p EXCEPT !.fp = id,
                              !.writer = <<NewWriterSize(id, writersize)>>],
             hs |-> Append(h, nh),
             fs |-> [f EXCEPT !.exists = TRUE]]
    ELSE IF ~f.exists
    THEN [err |-> "no such file", created |-> FALSE, rf |-> p, hs |-> h, fs |-> f]
    ELSE LET id == Len(h) + 1
         IN [err |-> "nil", created |-> FALSE,
             rf |-> [p EXCEPT !.fp = id,
                              !.scanner = <<[h |-> id, data |-> <<>>, err |-> "nil"]>>],
             hs |-> Append(h, [open |-> TRUE, off |-> 0, rd |-> TRUE, wr |-> FALSE]),
             fs |-> f]

\* OpenWithFooter on a file that was there: o is what OpenWithBufferSizes
\* returned, r what ReadFooter then returned.
OpenWithFooterRead(o, r, mode) ==
    LET p1 == [o.rf EXCEPT !.footoff = r.footoff]
        h1 == [o.hs EXCEPT ![p1.fp].off = r.off]
    IN
    IF r.err # "nil" THEN [err |-> r.err, rf |-> p1, hs |-> h1, fs |-> o.fs]
    ELSE IF mode = "write"
    THEN \* copy [0, endofdataoff) to the temp file and back through a second
         \* handle opened O_WRONLY|O_CREATE; the writer stays on the first.
         LET endofdataoff == p1.footoff - 4
             id == Len(h1) + 1
         IN IF endofdataoff < 0
            THEN [err |-> "errcopytmp", rf |-> p1,
                  hs |-> [h1 EXCEPT ![p1.fp].off = 0], fs |-> o.fs]
            ELSE [err |-> "nil",
                  rf |-> [p1 EXCEPT !.fp = id, !.Footer = r.foot],
                  hs |-> Append([h1 EXCEPT ![p1.fp].off = endofdataoff],
                                [open |-> TRUE, off |-> endofdataoff,
                                 rd |-> FALSE, wr |-> TRUE]),
                  fs |-> [o.fs EXCEPT !.data =
                             WriteAt(@, 0, SubSeq(@, 1, endofdataoff))]]
    ELSE [err |-> "nil", rf |-> [p1 EXCEPT !.Footer = r.foot], hs |-> h1, fs |-> o.fs]

\* FootedRecordFile.OpenWithFooter(mode): [err, rf, hs, fs].
OpenWithFooterOpened(o, mode) ==
    IF o.err # "nil" THEN [err |-> o.err, rf |-> o.rf, hs |-> o.hs, fs |-> o.fs]
    ELSE IF o.created THEN [err |-> "nil", rf |-> o.rf, hs |-> o.hs, fs |-> o.fs]
    ELSE OpenWithFooterRead(o, ReadFooter(o.rf, o.hs, o.fs.data), mode)
OpenWithFooter(p, h, f, mode) ==
    OpenWithFooterOpened(OpenWithBufferSizes(p, h, f, mode, 0, 0), mode)

\* RecordFile.Write(b): [err, panic, rf, hs, fs].  The length goes to the
\* writer with binary.Write (one Write of 4 bytes), then b.
RecordFileWrite(p, b, h, f) ==
    IF p.fp = 0
    THEN [err |-> "errNotOpen", panic |-> FALSE, rf |-> p, hs |-> h, fs |-> f]
    ELSE IF p.writer = <<>>        \* a method call on the nil *bufio.Writer
    THEN [err |-> "panic", panic |-> TRUE, rf |-> p, hs |-> h, fs |-> f]
    ELSE
    LET w1 == BufioWrite(p.writer[1], PutUint32(Len(b)), h, f.data)
        w2 == BufioWrite(w1.w, b, w1.hs, w1.data)
    IN IF w1.err # "nil"
       THEN [err |-> w1.err, panic |-> FALSE, rf |-> [p EXCEPT !.writer = <<w1.w>>],
             hs |-> w1.hs, fs |-> [f EXCEPT !.data = w1.data]]
       ELSE IF w2.err # "nil"
       THEN [err |-> w2.err, panic |-> FALSE, rf |-> [p EXCEPT !.writer = <<w2.w>>],
             hs |-> w2.hs, fs |-> [f EXCEPT !.data = w2.data]]
       ELSE [err |-> "nil", panic |-> FALSE,
             rf |-> [p EXCEPT !.writer = <<w2.w>>, !.sz = @ + Len(b)],
             hs |-> w2.hs, fs |-> [f EXCEPT !.data = w2.data]]

\* RecordFile.Read(b) with len(b) = n: [err, n, hs].  It reads from p.fp,
\* past the reader and the scanner.
RecordFileRead(p, n, h, f) ==
    IF p.fp = 0 THEN [err |-> "errNotOpen", n |-> 0, hs |-> h]
    ELSE IF ~h[p.fp].open THEN [err |-> "file already closed", n |-> 0, hs |-> h]
    ELSE IF ~h[p.fp].rd THEN [err |-> "bad file descriptor", n |-> 0, hs |-> h]
    ELSE LET got == Min(n, Max(Len(f.data) - h[p.fp].off, 0))
         IN [err |-> IF got = 0 /\ n > 0 THEN "EOF" ELSE "nil", n |-> got,
             hs |-> [h EXCEPT ![p.fp].off = @ + got]]

\* RecordFile.Flush: [err, rf, hs, fs].
RecordFileFlush(p, h, f) ==
    IF p.writer = <<>> THEN [err |-> "nil", rf |-> p, hs |-> h, fs |-> f]
    ELSE LET fl == Flush(p.writer[1], h, f.data)
         IN [err |-> fl.w.err, rf |-> [p EXCEPT !.writer = <<fl.w>>],
             hs |-> fl.hs, fs |-> [f EXCEPT !.data = fl.data]]

\* RecordFile.Close: [err, rf, hs, fs].  The error of Flush is dropped.
RecordFileClose(p, h, f) ==
    LET fl == RecordFileFlush(p, h, f)
    IN IF fl.rf.fp # 0
       THEN [err |-> "nil", rf |-> [fl.rf EXCEPT !.fp = 0],
             hs |-> [fl.hs EXCEPT ![fl.rf.fp].open = FALSE], fs |-> fl.fs]
       ELSE [err |-> "errNotOpen", rf |-> fl.rf, hs |-> fl.hs, fs |-> fl.fs]

\* FootedRecordFile.MakeFooter
MakeFooter(p) == [Numentries |-> p.entries, Filever |-> RecordFile_FlatFooted]

\* FootedRecordFile.Close: [err, panic, rf, hs, fs].
FootedRecordFileClose(p, h, f) ==
    LET p1 == [p EXCEPT !.Footer = <<MakeFooter(p)>>]
        w == RecordFileWrite(p1, MarshalBytes(p1.Footer[1]), h, f)
    IN IF w.err # "nil"
       THEN [err |-> w.err, panic |-> w.panic, rf |-> w.rf, hs |-> w.hs, fs |-> w.fs]
       ELSE LET c == RecordFileClose(w.rf, w.hs, w.fs)
            IN [err |-> c.err, panic |-> FALSE, rf |-> c.rf, hs |-> c.hs, fs |-> c.fs]

\* One Scanner.Scan() of the record scanner rs: [ok, panic, tok, sc, hs].
\* Scan first offers the bytes it holds to splitRecord and reads only when
\* they hold no record.  A read through the bufio.Reader is one Read of the
\* handle, which delivers what is left of the file (files are shorter than
\* the 4096 bytes asked for); a read that finds a partial record is followed
\* by a read that finds the end of the file.  cap(data) is at least
\* len(data), which is what the capacity tests of splitRecord see.  A panic
\* of splitRecord leaves Scan with the bytes read.
RecordScan(rs, h, data) ==
    LET stop(e, h1) == [ok |-> FALSE, panic |-> FALSE, tok |-> <<>>,
                        sc |-> [rs EXCEPT !.data = <<>>, !.err = e], hs |-> h1]
        split(avail, h1) ==
            LET r == splitRecord(avail, Len(avail), FALSE) IN
            IF r.panic
            THEN [ok |-> FALSE, panic |-> TRUE, tok |-> <<>>,
                  sc |-> [rs EXCEPT !.data = avail], hs |-> h1]
            ELSE IF ~r.token.isNil
            THEN [ok |-> TRUE, panic |-> FALSE, tok |-> r.token.bytes,
                  sc |-> [rs EXCEPT !.data = SubSeq(avail, r.advance + 1, Len(avail))],
                  hs |-> h1]
            ELSE stop(IF h1[rs.h].open THEN "EOF" ELSE "file already closed", h1)
        held == splitRecord(rs.data, Len(rs.data), FALSE)
        chunk == SubSeq(data, h[rs.h].off + 1, Len(data))
    IN IF rs.err # "nil" THEN stop(rs.err, h)
       ELSE IF rs.data # <<>> /\ (held.panic \/ ~held.token.isNil)
       THEN split(rs.data, h)
       ELSE IF ~h[rs.h].open THEN stop("file already closed", h)
       ELSE IF chunk = <<>> THEN stop("EOF", h)
       ELSE split(rs.data \o chunk, [h EXCEPT ![rs.h].off = @ + Len(chunk)])

(***************************************************************************)
(* Input streams.  An MRT record is the 12-byte header (timestamp, type,   *)
(* subtype, payload length) followed by the payload.                       *)
(***************************************************************************)
MrtRec(type, subtype, payload) ==
    <<0, 0, 0, 0>> \o PutUint16(type) \o PutUint16(subtype)
        \o PutUint32(Len(payload)) \o payload

\* Well-formed records of three different lengths.
FramingRecs == { MrtRec(BGP4MP, MESSAGE, <<>>),
                 MrtRec(TABLE_DUMP_V2, 2, <<7>>),
                 MrtRec(TABLE_DUMP, 0, <<8, 9>>) }

RECURSIVE SeqsUpTo(_, _)
SeqsUpTo(S, n) ==
    IF n = 0 THEN {<<>>}
    ELSE LET shorter == SeqsUpTo(S, n - 1) IN
         shorter \cup { Append(q, x) : q \in shorter, x \in S }

(***************************************************************************)
(* SpecScan: a consumer that drives the scanner over any io.Reader and     *)
(* keeps every token.                                                      *)
(***************************************************************************)
\* mr is the mrtReader: err, lastTok (<<>> for nil, else <<capture>>),
\* lastTokErr, filters, and where a Scan call stands (pc) with what the last
\* one returned (ret).
NewMrtFileReader(filters) ==
    [err |-> "nil", lastTok |-> NilCapture, lastTokErr |-> "nil",
     filters |-> filters, pc |-> "idle", ret |-> "none"]

MrtIdle == /\ mr = NewMrtFileReader(<<>>)
           /\ delivered = <<>>
           /\ crashed = FALSE

PtIdle == pt = NewPrefixTree /\ added = {} /\ query = <<>>
CallIdle == call = [fn |-> "none", arg |-> <<>>, res |-> <<>>]

\* cmd/gobgpdump: NewTextFormatter, NewMultiWriteFile and a worker goroutine
\* before its first step.
NewTextFormatter == [msgNum |-> 0]
NewMultiWriteFile(fd) == [base |-> fd, mx |-> 0]
Workers == 1..NumWorkers
NewWorker == [pc |-> "next", num |-> 0, tmp |-> 0, out |-> <<>>, n |-> 0]

DumpIdle == /\ mwf = NewMultiWriteFile("nil")
            /\ sink = <<>>
            /\ fmtr = NewTextFormatter
            /\ wk = [w \in Workers |-> NewWorker]
            /\ files = 0
            /\ formatted = <<>>

ScanIdle == /\ recs = <<>> /\ src = <<>> /\ rpos = 0 /\ sc = NewScanner
            /\ spc = "idle" /\ sret = "none" /\ toks = <<>> /\ calls = 0

InitScan ==
    /\ recs \in SeqsUpTo(FramingRecs, MaxRecs)
    /\ src = Concat(recs)
    /\ toks = <<>>
    /\ rpos = 0
    /\ sc = NewScanner
    /\ spc = "idle"
    /\ sret = "none"
    /\ calls = 0
    /\ MrtIdle
    /\ PtIdle
    /\ RfIdle
    /\ CallIdle
    /\ DumpIdle

\* The consumer calls scanner.Scan().
ScanCall ==
    /\ spc = "idle"
    /\ sret # "false" \/ calls < MaxExtraCalls
    /\ spc' = "scan"
    /\ calls' = IF sret = "false" THEN calls + 1 ELSE calls
    /\ UNCHANGED <<recs, src, rpos, sc, sret, toks, mrtVars, ptVars, rfVars, callVars, dumpVars>>

\* One pass of Scan's loop up to the read.
ScanTop ==
    /\ spc = "scan"
    /\ LET r == ScanSplit(sc) IN
       CASE r.out = "token" ->
              /\ sc' = r.s
              /\ toks' = Append(toks, r.tok)
              /\ sret' = "true"
              /\ spc' = "idle"
         [] r.out = "stop" ->
              /\ sc' = r.s
              /\ sret' = "false"
              /\ spc' = "idle"
              /\ UNCHANGED toks
         [] r.out = "more" ->
              LET sh == ScanShift(r.s) IN
              IF ScanFull(sh)
              THEN /\ sc' = SetErr(sh, "ErrTooLong")
                   /\ sret' = "false"
                   /\ spc' = "idle"
                   /\ UNCHANGED toks
              ELSE /\ sc' = sh
                   /\ spc' = "read"
                   /\ UNCHANGED <<sret, toks>>
    /\ UNCHANGED <<recs, src, rpos, calls, mrtVars, ptVars, rfVars, callVars, dumpVars>>

\* The reader answers Read(p) with n > 0 bytes and no error.
ReadData ==
    /\ spc = "read"
    /\ \E n \in 1..Min(Len(sc.buf) - sc.end, Len(src) - rpos) :
          /\ sc' = ScanFill(sc, SubSeq(src, rpos + 1, rpos + n), "nil")
          /\ rpos' = rpos + n
    /\ spc' = "scan"
    /\ UNCHANGED <<recs, src, sret, toks, calls, mrtVars, ptVars, rfVars, callVars, dumpVars>>

\* The reader answers Read(p) with (0, io.EOF) once everything is delivered.
ReadEOF ==
    /\ spc = "read"
    /\ rpos = Len(src)
    /\ sc' = ScanFill(sc, <<>>, "EOF")
    /\ spc' = "scan"
    /\ UNCHANGED <<recs, src, rpos, sret, toks, calls, mrtVars, ptVars, rfVars, callVars, dumpVars>>

\* The reader answers Read(p) with the last n > 0 bytes together with io.EOF,
\* as the io.Reader contract allows.
ReadDataEOF ==
    /\ spc = "read"
    /\ rpos < Len(src)
    /\ Len(src) - rpos <= Len(sc.buf) - sc.end
    /\ sc' = ScanFill(sc, SubSeq(src, rpos + 1, Len(src)), "EOF")
    /\ rpos' = Len(src)
    /\ spc' = "scan"
    /\ UNCHANGED <<recs, src, sret, toks, calls, mrtVars, ptVars, rfVars, callVars, dumpVars>>

NextScan == ScanCall \/ ScanTop \/ ReadData \/ ReadEOF \/ ReadDataEOF

SpecScan == InitScan /\ [][NextScan]_vars

(***************************************************************************)
(* C1.  For any sequence of well-formed MRT records concatenated into one  *)
(* stream, the scanner yields exactly those records, one token per record, *)
(* in stream order, however the reader splits the bytes into reads and     *)
(* signals end of input: the tokens yielded so far are always the first    *)
(* records of the stream, and when Scan has returned false they are all of *)
(* them.                                                                   *)
(***************************************************************************)
IsPrefixOf(p, q) == Len(p) <= Len(q) /\ SubSeq(q, 1, Len(p)) = p

C1_FramingRoundTrip ==
    /\ IsPrefixOf(toks, recs)
    /\ (spc = "idle" /\ sret = "false") => toks = recs

(***************************************************************************)
(* A record file under its public methods.  One object at a time works on  *)
(* the file; RfNew is a new object, made once the file is closed (a later  *)
(* run of the program).                                                    *)
(***************************************************************************)
Payloads == {<<1>>, <<2, 3>>}
IncAmounts == {10}
\* readersize and writersize: negative, the default, a writer smaller than
\* a record.
BufferSizes == {-1, 0, 3}
\* len(b) of a Read(b)
ReadLens == {1, 5}

InitRecFile ==
    /\ ScanIdle /\ MrtIdle /\ PtIdle /\ CallIdle /\ DumpIdle
    /\ fs = [exists |-> FALSE, data |-> <<>>]
    /\ hs = <<>>
    /\ rf \in {NewRecordFile(FALSE), NewRecordFile(TRUE)}
    /\ last = NoCall
    /\ written = <<>>
    /\ rftoks = <<>>

Alive == last.err # "panic"
InWriteSession == rf.fp # 0 /\ hs[rf.fp].wr

\* An open has returned o.
RfOpenReturns(o, opname) ==
    /\ rf' = o.rf
    /\ hs' = o.hs
    /\ fs' = o.fs
    /\ last' = [last EXCEPT !.op = opname, !.err = o.err, !.wr = InWriteSession]
    /\ rftoks' = IF o.rf.scanner # rf.scanner THEN <<>> ELSE rftoks

RfOpen(mode, opname) ==
    /\ Alive
    /\ Len(hs) + (IF rf.footed /\ mode = "write" /\ fs.exists THEN 2 ELSE 1)
          <= MaxHandles
    /\ RfOpenReturns(IF rf.footed THEN OpenWithFooter(rf, hs, fs, mode)
                     ELSE OpenWithBufferSizes(rf, hs, fs, mode, 0, 0), opname)
    /\ UNCHANGED <<written, scanVars, mrtVars, ptVars, callVars, dumpVars>>

RfOpenRead == RfOpen("read", "OpenRead")
RfOpenWrite == RfOpen("write", "OpenWrite")

\* OpenWithBufferSizes(p.RecordFile, readersize, writersize, openmode), the
\* exported function, on a flat file or on the RecordFile of a footed one.
RfOpenWithBufferSizes ==
    /\ Alive
    /\ Len(hs) < MaxHandles
    /\ last.nx < MaxDirectCalls
    /\ \E mode \in {"read", "write"}, readersize, writersize \in BufferSizes :
          LET o == OpenWithBufferSizes(rf, hs, fs, mode, readersize, writersize)
          IN /\ rf' = o.rf
             /\ hs' = o.hs
             /\ fs' = o.fs
             /\ last' = [last EXCEPT !.op = "OpenWithBufferSizes", !.err = o.err,
                                     !.wr = InWriteSession, !.nx = @ + 1]
             /\ rftoks' = IF o.rf.scanner # rf.scanner THEN <<>> ELSE rftoks
    /\ UNCHANGED <<written, scanVars, mrtVars, ptVars, callVars, dumpVars>>

\* FootedRecordFile.ReadFooter(), called by the user.
RfReadFooterReturns(r) ==
    /\ rf' = [rf EXCEPT !.footoff = r.footoff]
    /\ hs' = IF rf.fp = 0 THEN hs ELSE [hs EXCEPT ![rf.fp].off = r.off]
    /\ last' = [last EXCEPT !.op = "ReadFooter", !.err = r.err,
                            !.wr = InWriteSession, !.nx = @ + 1]

RfReadFooter ==
    /\ Alive
    /\ rf.footed
    /\ last.nx < MaxDirectCalls
    /\ RfReadFooterReturns(ReadFooter(rf, hs, fs.data))
    /\ UNCHANGED <<fs, written, rftoks, scanVars, mrtVars, ptVars, callVars, dumpVars>>

\* RecordFile.Read(b)
RfRead ==
    /\ Alive
    /\ last.nx < MaxDirectCalls
    /\ \E n \in ReadLens :
          LET r == RecordFileRead(rf, n, hs, fs)
          IN /\ hs' = r.hs
             /\ last' = [last EXCEPT !.op = "Read", !.err = r.err,
                                     !.wr = InWriteSession, !.nx = @ + 1]
    /\ UNCHANGED <<fs, rf, written, rftoks, scanVars, mrtVars, ptVars, callVars, dumpVars>>

\* RecordFile.Flush()
RfFlush ==
    /\ Alive
    /\ last.nx < MaxDirectCalls
    /\ LET r == RecordFileFlush(rf, hs, fs)
       IN /\ rf' = r.rf
          /\ hs' = r.hs
          /\ fs' = r.fs
          /\ last' = [last EXCEPT !.op = "Flush", !.err = r.err,
                                  !.wr = InWriteSession, !.nx = @ + 1]
    /\ UNCHANGED <<written, rftoks, scanVars, mrtVars, ptVars, callVars, dumpVars>>

RfWrite ==
    /\ Alive
    /\ last.nw < MaxWrites
    /\ \E b \in Payloads :
          LET w == RecordFileWrite(rf, b, hs, fs) IN
          /\ rf' = w.rf
          /\ hs' = w.hs
          /\ fs' = w.fs
          /\ last' = [op |-> "Write", err |-> w.err, wr |-> InWriteSession,
                      nw |-> last.nw + 1, nx |-> last.nx]
          /\ written' = IF w.err = "nil" /\ InWriteSession
                        THEN Append(written, b) ELSE written
    /\ UNCHANGED <<rftoks, scanVars, mrtVars, ptVars, callVars, dumpVars>>

RfIncEntries ==
    /\ Alive
    /\ \E n \in IncAmounts :
          /\ rf.entries + n <= MaxEntries
          /\ rf' = [rf EXCEPT !.entries = @ + n]
    /\ last' = [last EXCEPT !.op = "IncEntries", !.err = "nil", !.wr = InWriteSession]
    /\ UNCHANGED <<fs, hs, written, rftoks, scanVars, mrtVars, ptVars, callVars, dumpVars>>

RfClose ==
    /\ Alive
    /\ LET c == IF rf.footed THEN FootedRecordFileClose(rf, hs, fs)
                ELSE [panic |-> FALSE] @@ RecordFileClose(rf, hs, fs)
       IN /\ rf' = c.rf
          /\ hs' = c.hs
          /\ fs' = c.fs
          /\ last' = [last EXCEPT !.op = "Close", !.err = c.err, !.wr = InWriteSession]
    /\ UNCHANGED <<written, rftoks, scanVars, mrtVars, ptVars, callVars, dumpVars>>

RfScan ==
    /\ Alive
    /\ rf.scanner # <<>>
    /\ LET r == RecordScan(rf.scanner[1], hs, fs.data)
       IN /\ rf' = [rf EXCEPT !.scanner = <<r.sc>>]
          /\ hs' = r.hs
          /\ rftoks' = IF r.ok THEN Append(rftoks, r.tok) ELSE rftoks
          /\ last' = [last EXCEPT !.op = "Scan",
                                  !.err = IF r.panic THEN "panic"
                                          ELSE IF r.ok THEN "nil" ELSE "false",
                                  !.wr = InWriteSession]
    /\ UNCHANGED <<fs, written, scanVars, mrtVars, ptVars, callVars, dumpVars>>

RfNew ==
    /\ Alive
    /\ rf.fp = 0
    /\ rf # NewRecordFile(rf.footed)
    /\ rf' = NewRecordFile(rf.footed)
    /\ last' = [last EXCEPT !.op = "New", !.err = "nil", !.wr = FALSE]
    /\ rftoks' = <<>>
    /\ UNCHANGED <<fs, hs, written, scanVars, mrtVars, ptVars, callVars, dumpVars>>

NextRecFile ==
    \/ RfOpenRead \/ RfOpenWrite \/ RfOpenWithBufferSizes \/ RfWrite
    \/ RfIncEntries \/ RfClose \/ RfScan \/ RfReadFooter \/ RfRead \/ RfFlush
    \/ RfNew

SpecRecFile == InitRecFile /\ [][NextRecFile]_vars

\* What ReadFooter finds on the file as it is now.
FooterOnDisk ==
    ReadFooter([rf EXCEPT !.fp = 1],
               <<[open |-> TRUE, off |-> 0, rd |-> TRUE, wr |-> FALSE]>>, fs.data)

\* Only OpenRead, OpenWrite, Write, IncEntries, Scan and Close have been
\* called so far.
NoDirectCalls == last.nx = 0

\* A write session of a footed file has just been closed.
WriteSessionClosed ==
    NoDirectCalls /\ rf.footed /\ last.op = "Close" /\ last.err = "nil" /\ last.wr

RECURSIVE RecordsOf(_)
RecordsOf(ps) == IF ps = <<>> THEN <<>>
                 ELSE RecordBytes(Head(ps)) \o RecordsOf(Tail(ps))

(***************************************************************************)
(* C5.  Writing N records to a fresh footed file, closing it and opening   *)
(* it again with OpenRead gives a Scanner that yields exactly the N        *)
(* payloads in order and never the footer: the tokens yielded are always   *)
(* the first payloads written, and all of them once Scan returned false.   *)
(* The case: handle 1 created the file and is closed, handle 2 is the      *)
(* read handle the object holds.                                           *)
(***************************************************************************)
FreshFileReopenedForRead ==
    /\ NoDirectCalls
    /\ rf.footed /\ Len(hs) = 2
    /\ ~hs[1].rd /\ ~hs[1].open
    /\ rf.fp = 2 /\ hs[2].rd /\ ~hs[2].wr
    /\ rf.scanner # <<>> /\ rf.scanner[1].h = 2

C5_FootedRoundTrip ==
    FreshFileReopenedForRead =>
        /\ IsPrefixOf(rftoks, written)
        /\ rf.scanner[1].err # "nil" => rftoks = written

(***************************************************************************)
(* C6.  After the Close of a write session on a footed file (the first     *)
(* one, or an append session), the footer read back has Numentries equal   *)
(* to the number of records written to the file so far.                    *)
(***************************************************************************)
C6_FooterCountsRecords ==
    WriteSessionClosed =>
        /\ FooterOnDisk.err = "nil"
        /\ FooterOnDisk.foot[1].Numentries = Len(written)

(***************************************************************************)
(* C7.  After the Close of any write session on a footed file the file is  *)
(* the records written so far, each once and in order, followed by exactly *)
(* one footer; its last 8 bytes are the footer length and the magic number *)
(* 118864, and ReadFooter succeeds and returns the footer that Close wrote.*)
(***************************************************************************)
C7_ClosedFileWellFormed ==
    WriteSessionClosed =>
        LET jb == FooterJSON(rf.Footer[1])
            n == Len(fs.data)
        IN /\ fs.data = RecordsOf(written) \o RecordBytes(MarshalBytes(rf.Footer[1]))
           /\ SubSeq(fs.data, n - 7, n) = PutUint32(Len(jb)) \o PutUint32(118864)
           /\ FooterOnDisk.err = "nil"
           /\ FooterOnDisk.foot = rf.Footer

(***************************************************************************)
(* C8.  For a flat RecordFile under any sequence of calls: Write on a file *)
(* that is not open fails with errNotOpen; Close on a file that is not     *)
(* open fails; an Open on an open file fails with errOpen and changes      *)
(* nothing, so the file stays open as it was; after a successful Close the *)
(* file is not open, and an Open of a file that is not open succeeds (the  *)
(* file exists once it has been opened before).                            *)
(***************************************************************************)
IsOpenCall == last'.op \in {"OpenRead", "OpenWrite"}

C8_OpenCloseStateMachine ==
    [][ ~rf.footed =>
          /\ (last'.op = "Write" /\ rf.fp = 0) =>
                 (last'.err = "errNotOpen" /\ rf' = rf /\ fs' = fs)
          /\ (last'.op = "Close" /\ rf.fp = 0) => last'.err = "errNotOpen"
          /\ (IsOpenCall /\ rf.fp # 0) =>
                 (last'.err = "errOpen" /\ rf' = rf /\ hs' = hs /\ fs' = fs)
          /\ (last'.op = "Close" /\ rf.fp # 0) =>
                 (last'.err = "nil" /\ rf'.fp = 0 /\ ~hs'[rf.fp].open)
          /\ (IsOpenCall /\ rf.fp = 0 /\ (fs.exists \/ last'.op = "OpenWrite")) =>
                 (last'.err = "nil" /\ rf'.fp # 0 /\ hs'[rf'.fp].open)
      ]_vars

\* A flat file that was opened, closed and opened again (handle 2), on which
\* a further Open has just failed.
C8_Witness ==
    /\ ~rf.footed /\ Len(hs) = 2 /\ ~hs[1].open
    /\ rf.fp = 2 /\ hs[2].open
    /\ last.op = "OpenWrite" /\ last.err = "errOpen"

(***************************************************************************)
(* C28.  Closing a FootedRecordFile that was opened with OpenRead          *)
(* completes without failure and leaves the file's bytes unchanged: a      *)
(* footer is written only by Close on a write path.                        *)
(***************************************************************************)
OpenForRead == rf.fp # 0 /\ hs[rf.fp].open /\ hs[rf.fp].rd /\ ~hs[rf.fp].wr

C28_CloseAfterOpenReadKeepsFile ==
    [][ (NoDirectCalls /\ rf.footed /\ OpenForRead /\ last'.op = "Close") =>
            /\ last'.err = "nil"
            /\ rf'.fp = 0 /\ ~hs'[rf.fp].open
            /\ fs' = fs
      ]_vars

(***************************************************************************)
(* SpecBadFooter: a FootedRecordFile object on a file that is there but    *)
(* has no valid footer: an empty file, a flat record file, a file whose    *)
(* first length field is 0xfffffffc, a wrong magic number, a footer length *)
(* of 0, a footer that is not JSON.                                        *)
(***************************************************************************)
BadFooterFiles ==
    { <<>>,
      RecordBytes(<<2, 3>>),
      <<255, 255, 255, 252, 1>>,
      RecordBytes(<<1>>) \o FooterJSON([Numentries |-> 1, Filever |-> 1])
          \o PutUint32(Len(FooterJSON([Numentries |-> 1, Filever |-> 1])))
          \o PutUint32(magicbytes + 1),
      RecordBytes(<<1>>) \o PutUint32(0) \o PutUint32(magicbytes),
      <<120, 120>> \o PutUint32(2) \o PutUint32(magicbytes) }

InitBadFooter ==
    /\ ScanIdle /\ MrtIdle /\ PtIdle /\ CallIdle /\ DumpIdle
    /\ fs \in {[exists |-> TRUE, data |-> d] : d \in BadFooterFiles}
    /\ hs = <<>>
    /\ rf = NewRecordFile(TRUE)
    /\ last = NoCall
    /\ written = <<>>
    /\ rftoks = <<>>

NextBadFooter ==
    \/ RfOpenRead \/ RfOpenWrite \/ RfOpenWithBufferSizes \/ RfWrite \/ RfClose
    \/ RfScan \/ RfReadFooter \/ RfRead \/ RfFlush \/ RfNew

SpecBadFooter == InitBadFooter /\ [][NextBadFooter]_vars

\* What ReadFooter returns for a missing or invalid footer.
FooterErrors == {"seek", "errmagic", "errnofoot", "json"}

(***************************************************************************)
(* C29.  If opening a footed record file fails because its footer is       *)
(* missing or invalid (wrong magic, impossible length, unparsable JSON),   *)
(* the RecordFile object is left in the not-open state: the file handle is *)
(* released and a later OpenRead or OpenWrite on the same object is not    *)
(* rejected with errOpen.                                                  *)
(***************************************************************************)
C29_FailedFooterOpenLeavesClosed ==
    [][ /\ (NoDirectCalls /\ IsOpenCall /\ last'.err \in FooterErrors) =>
               /\ rf'.fp = 0
               /\ \A i \in DOMAIN hs' : ~hs'[i].open
        /\ (NoDirectCalls /\ IsOpenCall /\ last.op \in {"OpenRead", "OpenWrite"}
                       /\ last.err \in FooterErrors) =>
               last'.err # "errOpen"
      ]_vars

(***************************************************************************)
(* The prefix tree under Add and ContainsIpMask calls.                     *)
(***************************************************************************)
V6(hi, lo) == <<hi, lo>> \o Zeros(14)

PrefixInputs ==
    { [ip |-> <<10, 0, 0, 0>>, mask |-> 8],
      [ip |-> <<10, 0, 0, 0>>, mask |-> 16],
      [ip |-> <<10, 0, 0, 0>>, mask |-> 15],
      [ip |-> <<10, 0, 0, 1>>, mask |-> 32],
      [ip |-> <<100, 12, 10, 0>>, mask |-> 24],
      [ip |-> <<100, 12, 10, 8>>, mask |-> 25],
      [ip |-> <<32, 0, 0, 0>>, mask |-> 8],
      [ip |-> <<0, 0, 0, 0>>, mask |-> 0],
      [ip |-> V6(32, 0), mask |-> 16],
      [ip |-> V6(32, 1), mask |-> 16],
      [ip |-> V6(32, 1), mask |-> 12],
      [ip |-> v4InV6Prefix \o <<10, 0, 12, 0>>, mask |-> 24] }

InitPrefix == ScanIdle /\ MrtIdle /\ PtIdle /\ RfIdle /\ CallIdle /\ DumpIdle

\* pt.Add(ip, mask)
PtAdd ==
    /\ Cardinality(added) < MaxAdds
    /\ \E p \in PrefixInputs :
          LET k == IpToRadixkey(p.ip, p.mask) IN
          /\ ~k.panic
          /\ pt' = pt \cup {k.key}
          /\ added' = added \cup {[ip |-> p.ip, mask |-> p.mask, key |-> k.key]}
    /\ UNCHANGED <<query, scanVars, mrtVars, rfVars, callVars, dumpVars>>

\* pt.ContainsIpMask(ip, mask)
PtContains ==
    /\ \E p \in PrefixInputs :
          LET k == IpToRadixkey(p.ip, p.mask) IN
          /\ ~k.panic
          /\ query' = <<[ip |-> p.ip, mask |-> p.mask, key |-> k.key,
                         found |-> ContainsIpMask(pt, p.ip, p.mask),
                         among |-> added]>>
    /\ UNCHANGED <<pt, added, scanVars, mrtVars, rfVars, callVars, dumpVars>>

NextPrefix == PtAdd \/ PtContains

SpecPrefix == InitPrefix /\ [][NextPrefix]_vars

\* Network-sense reading of a prefix: its family and its address bits.
IsV4(p) == To4(p.ip) # <<>>
AddrBits(p) == BitString(IF IsV4(p) THEN To4(p.ip) ELSE p.ip)
SameNet(a, b, n) == SubSeq(AddrBits(a), 1, n) = SubSeq(AddrBits(b), 1, n)
\* parent contains child, or equals it
ContainsOrEquals(parent, child) ==
    /\ IsV4(parent) = IsV4(child)
    /\ parent.mask <= child.mask
    /\ SameNet(parent, child, parent.mask)
StrictlyContains(parent, child) ==
    ContainsOrEquals(parent, child) /\ parent.mask < child.mask
IsStrictBitPrefix(k1, k2) == Len(k1) < Len(k2) /\ SubSeq(k2, 1, Len(k1)) = k1

(***************************************************************************)
(* C9.  After any sequence of Add calls, ContainsIpMask(ip, mask) returns  *)
(* true if and only if some added prefix equals or contains the queried    *)
(* prefix; a zero-mask prefix in the tree contains every prefix.           *)
(***************************************************************************)
C9_ContainsIffCovered ==
    query # <<>> =>
        (query[1].found <=>
            \E a \in query[1].among : a.mask = 0 \/ ContainsOrEquals(a, query[1]))

(***************************************************************************)
(* C10.  For any two prefixes that IpToRadixkey accepts, IPv4 or IPv6, the *)
(* child is strictly contained in the parent (network sense) if and only   *)
(* if the parent's key is a strict bit-prefix of the child's key.  The     *)
(* parent ranges over the prefixes in the tree, the child is the query.    *)
(***************************************************************************)
C10_StrictPrefixIffContained ==
    query # <<>> =>
        \A a \in query[1].among :
            StrictlyContains(a, query[1]) <=> IsStrictBitPrefix(a.key, query[1].key)

(***************************************************************************)
(* MRT files for the reader.  A BGP4MP MESSAGE record carries the BGP4MP   *)
(* header (2-byte AS numbers, IPv4 peers), the 19-byte BGP header and the  *)
(* UPDATE body.                                                            *)
(***************************************************************************)
Marker == [i \in 1..16 |-> 255]

\* An AS_PATH attribute with one AS_SEQUENCE of 2-byte AS numbers.
AsPathAttr(path) ==
    <<64, AS_PATH, 2 + 2 * Len(path), 2, Len(path)>>
        \o Concat([i \in 1..Len(path) |-> PutUint16(path[i])])

\* An UPDATE body: no withdrawn routes, the attributes, the NLRI.
UpdateBody(attrs, nlri) == PutUint16(0) \o PutUint16(Len(attrs)) \o attrs \o nlri

Bgp4mpHdr(afi, ips) == PutUint16(65001) \o PutUint16(65002) \o PutUint16(0)
                           \o PutUint16(afi) \o ips

Bgp4mpUpdate(path, nlri) ==
    LET body == UpdateBody(AsPathAttr(path), nlri) IN
    MrtRec(BGP4MP, MESSAGE,
           Bgp4mpHdr(AFI_IP, <<192, 0, 2, 1, 192, 0, 2, 2>>) \o Marker
               \o PutUint16(19 + Len(body)) \o <<2>> \o body)

\* 10.0.0.0/8 announced over the path 100 200
RecA == Bgp4mpUpdate(<<100, 200>>, <<8, 10>>)
\* 32.0.0.0/8 announced over the path 300
RecB == Bgp4mpUpdate(<<300>>, <<8, 32>>)
\* a BGP4MP record cut short inside the BGP4MP header
RecShort == MrtRec(BGP4MP, MESSAGE, <<0, 1, 0, 2>>)
\* a BGP4MP record of an IPv6 peering, cut short inside the peer addresses
RecShortV6 == MrtRec(BGP4MP, MESSAGE, Bgp4mpHdr(AFI_IP6, Zeros(16)))
\* a TABLE_DUMP record
RecTableDump == MrtRec(TABLE_DUMP, 1, <<0, 0, 0, 0>>)
\* a TABLE_DUMP_V2 RIB_IPV4_UNICAST record: sequence number 0, prefix 0/0,
\* no entries
RecRib == MrtRec(TABLE_DUMP_V2, 2, <<0, 0, 0, 0, 0, 0, 0>>)
\* a record of a type the decoder does not know
RecUnknown == MrtRec(99, 0, <<1, 2, 3>>)
\* a record one byte longer than the scan buffer
RecTooLong == MrtRec(99, 0, Zeros(ScanBufCap + 1 - MRT_HEADER_LEN))

MrtCatalog == {RecA, RecB, RecShort, RecShortV6, RecTableDump, RecRib,
               RecUnknown, RecTooLong}

\* The filter lists a reader is made with.
FilterConfigs ==
    { <<>>,
      <<NewASFilterFromSlice(<<200>>, AS_SOURCE)>>,
      <<NilFilter,
        \* net.ParseIP("10.0.0.0") is the 16-byte form
        NewPrefixFilterFromSlice(<<[ip |-> v4InV6Prefix \o <<10, 0, 0, 0>>,
                                    mask |-> 8]>>, AdvPrefix)>> }

(***************************************************************************)
(* SpecMrt: a consumer that calls mrtReader.Scan and, whenever it returns  *)
(* true, GetCapture.  The reader under the scanner is the opened file      *)
(* (os.File, or bzip2 over it): it hands out data without an error, then   *)
(* (0, io.EOF), and may fail with (0, error).                              *)
(*   delivered  what GetCapture gave after each true Scan: idx is the      *)
(*              number of the scanner token it was decoded from, raw the   *)
(*              token's bytes;                                             *)
(*   crashed    a run-time panic has ended the program.                    *)
(***************************************************************************)
InitMrt ==
    /\ recs \in SeqsUpTo(MrtCatalog, MaxMrtRecs)
    /\ src = Concat(recs)
    /\ rpos = 0
    /\ sc = NewScanner
    /\ spc = "idle"
    /\ sret = "none"
    /\ toks = <<>>
    /\ calls = 0
    /\ \E f \in FilterConfigs : mr = NewMrtFileReader(f)
    /\ delivered = <<>>
    /\ crashed = FALSE
    /\ PtIdle
    /\ RfIdle
    /\ CallIdle
    /\ DumpIdle

\* mrtReader.Scan is called: a no-op once m.err is set, else scanner.Scan().
MrtScan ==
    /\ mr.pc = "idle"
    /\ mr.ret # "false" \/ calls < MaxExtraCalls
    /\ calls' = IF mr.ret = "false" THEN calls + 1 ELSE calls
    /\ IF mr.err # "nil"
       THEN /\ mr' = [mr EXCEPT !.ret = "false"]
            /\ UNCHANGED spc
       ELSE /\ mr' = [mr EXCEPT !.pc = "scanning"]
            /\ spc' = "scan"
    /\ UNCHANGED <<recs, src, rpos, sc, sret, toks, delivered, crashed, ptVars, rfVars, callVars, dumpVars>>

Deliver(tok, err) ==
    /\ mr' = [mr EXCEPT !.lastTok = tok, !.lastTokErr = err,
                        !.pc = "idle", !.ret = "true"]
    /\ delivered' = Append(delivered, [idx |-> Len(toks), raw |-> toks[Len(toks)],
                                       tok |-> tok, err |-> err])
    /\ UNCHANGED <<spc, crashed>>

Panic ==
    /\ crashed' = TRUE
    /\ mr' = [mr EXCEPT !.pc = "crashed"]
    /\ UNCHANGED <<spc, delivered>>

\* mrtReader.Scan after MrtToBGPCapturev2 has given pb.
ScanCaptured(pb) ==
    CASE pb.kind = "panic" -> Panic
      [] pb.kind = "err" -> Deliver(NilCapture, "MrtToBGPCapture")
      [] OTHER -> Deliver(pb.capture, "nil")

\* mrtReader.Scan after FilterAll has given fa.
ScanFiltered(fa) ==
    IF fa.panic THEN Panic
    ELSE IF fa.pass THEN ScanCaptured(MrtToBGPCapturev2(ScannerBytes(sc)))
    ELSE /\ spc' = "scan"                                  \* goto rescan
         /\ UNCHANGED <<mr, delivered, crashed>>

\* mrtReader.Scan after ParseHeaders has given ph.
ScanParsed(ph) ==
    CASE ph.kind = "panic" -> Panic
      [] ph.kind = "err" -> Deliver(NilCapture, "parseHeaders")
      [] OTHER -> ScanFiltered(FilterAll(mr.filters, ph.mbs))

\* mrtReader.Scan from the return of scanner.Scan() to its own return or to
\* the goto rescan.
MrtScanned ==
    /\ mr.pc = "scanning"
    /\ spc = "idle"
    /\ IF sret = "false"
       THEN /\ mr' = [mr EXCEPT !.pc = "idle", !.ret = "false"]
            /\ UNCHANGED <<spc, delivered, crashed>>
       ELSE IF ScannerErr(sc) # "nil"
       THEN /\ mr' = [mr EXCEPT !.err = ScannerErr(sc), !.pc = "idle", !.ret = "false"]
            /\ UNCHANGED <<spc, delivered, crashed>>
       ELSE ScanParsed(ParseHeaders(ScannerBytes(sc)))
    /\ UNCHANGED <<recs, src, rpos, sc, sret, toks, calls, ptVars, rfVars, callVars, dumpVars>>

\* The file answers Read(p) with data and no error: all it can give, or a
\* shorter block.
ReadBlock ==
    /\ spc = "read"
    /\ \E n \in {Min(Len(sc.buf) - sc.end, Len(src) - rpos),
                  Min(MrtChunk, Min(Len(sc.buf) - sc.end, Len(src) - rpos))} :
          /\ n > 0
          /\ sc' = ScanFill(sc, SubSeq(src, rpos + 1, rpos + n), "nil")
          /\ rpos' = rpos + n
    /\ spc' = "scan"
    /\ UNCHANGED <<recs, src, sret, toks, calls, mrtVars, ptVars, rfVars, callVars, dumpVars>>

\* The file answers Read(p) with (0, err), err not io.EOF.
ReadErr ==
    /\ spc = "read"
    /\ sc' = ScanFill(sc, <<>>, "io error")
    /\ spc' = "scan"
    /\ UNCHANGED <<recs, src, rpos, sret, toks, calls, mrtVars, ptVars, rfVars, callVars, dumpVars>>

NextMrt == MrtScan \/ MrtScanned \/ ScanTop \/ ReadBlock \/ ReadEOF \/ ReadErr

SpecMrt == InitMrt /\ [][NextMrt]_vars

\* Scan has returned false to the consumer.
ScanReturnedFalse == mr.pc = "idle" /\ mr.ret = "false"

\* The record decodes: ParseHeaders and MrtToBGPCapturev2 both succeed on it.
Decodes(rec) == /\ ParseHeaders(SliceOf(rec)).kind = "ok"
                /\ MrtToBGPCapturev2(SliceOf(rec)).kind = "ok"

(***************************************************************************)
(* C2.  A record that fails to decode does not end the stream, whatever    *)
(* its type: the program goes on (no run-time panic), Scan returns true    *)
(* for the record with GetCapture giving (nil, error), and Scan returns    *)
(* false only when the scanner has stopped on an error or at end of input. *)
(***************************************************************************)
C2_DecodeFailureKeepsStream ==
    /\ ~crashed
    /\ \A k \in 1..Len(delivered) :
          ~Decodes(delivered[k].raw)
              => delivered[k].tok = NilCapture /\ delivered[k].err # "nil"
    /\ ScanReturnedFalse => sc.err # "nil"

(***************************************************************************)
(* C3.  When the scanner has stopped because of an error and Scan has      *)
(* returned false, Err() returns that error; Err() returns nil only when   *)
(* the stream ended at end of input.                                       *)
(***************************************************************************)
C3_ScannerErrorReported ==
    ScanReturnedFalse => mr.err = ScannerErr(sc)

(***************************************************************************)
(* C4.  The reader delivers records in file order and applies the filters  *)
(* on the way: every delivery is a record of the file, later deliveries    *)
(* come from later records, a record that decodes and is rejected by some  *)
(* filter is never delivered, and a record that decodes and passes all     *)
(* filters is delivered once the reader has gone past it.                  *)
(***************************************************************************)
\* Some filter of the reader says no to the decoded record.
Rejected(rec) ==
    LET mbs == ParseHeaders(SliceOf(rec)).mbs IN
    \E i \in 1..Len(mr.filters) :
        mr.filters[i].kind # "nil" /\ ~ApplyFilter(mr.filters[i], mbs).pass

DeliveredIdx == {delivered[k].idx : k \in 1..Len(delivered)}

\* The reader has finished with token i.
HandledTok(i) ==
    \/ i < Len(toks)
    \/ i = Len(toks) /\ ~crashed /\ ~(mr.pc = "scanning" /\ spc = "idle")

C4_FileOrderAndFilters ==
    /\ \A k \in 1..Len(delivered) :
          /\ delivered[k].idx \in 1..Len(recs)
          /\ delivered[k].raw = recs[delivered[k].idx]
          /\ k < Len(delivered) => delivered[k].idx < delivered[k + 1].idx
    /\ \A i \in 1..Min(Len(toks), Len(recs)) :
          (toks[i] = recs[i] /\ Decodes(recs[i])) =>
              /\ Rejected(recs[i]) => i \notin DeliveredIdx
              /\ (~Rejected(recs[i]) /\ HandledTok(i)) => i \in DeliveredIdx

\* A record was skipped by a filter and a later record was delivered.
C4_Witness ==
    \E k \in 1..Len(delivered) :
        /\ delivered[k].tok # NilCapture
        /\ \E i \in 1..(delivered[k].idx - 1) :
               Decodes(recs[i]) /\ Rejected(recs[i]) /\ i \notin DeliveredIdx


(***************************************************************************)
(* Direct calls of the package's functions: one call at a time, each on an *)
(* argument drawn from a bounded set; the caller then drops the result.    *)
(***************************************************************************)
NoCallYet == [fn |-> "none", arg |-> <<>>, res |-> <<>>]
Called(fn, arg, res) == [fn |-> fn, arg |-> arg, res |-> res]

InitCalls == ScanIdle /\ MrtIdle /\ PtIdle /\ RfIdle /\ CallIdle /\ DumpIdle

CallReturn ==
    /\ call.fn # "none"
    /\ call' = NoCallYet
    /\ UNCHANGED <<scanVars, mrtVars, ptVars, rfVars, dumpVars>>

\* ---- util.IpToRadixkey
KeyAddrs ==
    { <<255, 255, 255, 255>>, <<10, 0, 0, 1>>, <<192, 168, 1, 12>>,
      v4InV6Prefix \o <<192, 168, 1, 12>>,
      <<32, 1, 0, 0, 50, 56, 223, 225, 0, 99, 0, 0, 0, 0, 254, 251>>,
      [i \in 1..16 |-> 255] }
KeyMasks == 0..MaxKeyMask

CallIpToRadixkey ==
    /\ call.fn = "none"
    /\ \E ip \in KeyAddrs, mask \in KeyMasks :
          call' = Called("IpToRadixkey", [ip |-> ip, mask |-> mask],
                         IpToRadixkey(ip, mask))
    /\ UNCHANGED <<scanVars, mrtVars, ptVars, rfVars, dumpVars>>

\* The width of the address family of an address: 32 when To4 succeeds.
FamilyWidth(ip) == IF To4(ip) # <<>> THEN 32 ELSE 128

\* C11.  For an address of 4 or 16 bytes and a mask within the width of its
\* address family, the key IpToRadixkey returns has exactly mask characters,
\* is the first mask bits of the address (big-endian), and is a bit-prefix
\* of the key of the same address under every larger mask.
C11_KeyIsMaskBitsOfAddress ==
    (call.fn = "IpToRadixkey" /\ call.arg.mask <= FamilyWidth(call.arg.ip)) =>
        /\ ~call.res.panic
        /\ Len(call.res.key) = call.arg.mask
        /\ call.res.key = SubSeq(AddrBits(call.arg), 1, call.arg.mask)
        /\ \A m2 \in call.arg.mask..FamilyWidth(call.arg.ip) :
              IsPrefixOf(call.res.key, IpToRadixkey(call.arg.ip, m2).key)

C11_Witness ==
    /\ call.fn = "IpToRadixkey"
    /\ Len(call.arg.ip) = 16 /\ To4(call.arg.ip) = <<>>
    /\ call.arg.mask = 120
    /\ Len(call.res.key) = 120
    /\ \E i \in 1..120 : call.res.key[i] = 1


\* ---- filter.ASFilter on the stack of a decoded UPDATE
\* A path segment as sent: an AS_SET (set) or an AS_SEQUENCE of 2-byte ASNs.
Seg(set, asns) == [set |-> set, asns |-> asns]
SegBytes(seg) ==
    <<IF seg.set THEN 1 ELSE 2, Len(seg.asns)>>
        \o Concat([i \in 1..Len(seg.asns) |-> PutUint16(seg.asns[i])])
AsPathAttrOf(segs) ==
    LET v == Concat([i \in 1..Len(segs) |-> SegBytes(segs[i])])
    IN <<64, AS_PATH, Len(v)>> \o v
OriginAttr == <<64, ORIGIN, 1, 0>>

\* A BGP4MP record of an IPv4 peering that carries the UPDATE body.
Bgp4mpRecord(subtype, body) ==
    MrtRec(BGP4MP, subtype,
           Bgp4mpHdr(AFI_IP, <<192, 0, 2, 1, 192, 0, 2, 2>>) \o Marker
               \o PutUint16(19 + Len(body)) \o <<2>> \o body)

\* The UPDATE that announces 10.0.0.0/8 over the segments; without segments
\* it carries no AS_PATH attribute.
PathUpdate(segs) ==
    Bgp4mpRecord(MESSAGE,
        UpdateBody(OriginAttr \o (IF segs = <<>> THEN <<>> ELSE AsPathAttrOf(segs)),
                   <<8, 10>>))

SegLists ==
    { <<>>,
      <<Seg(FALSE, <<100>>)>>,
      <<Seg(FALSE, <<100, 200>>)>>,
      <<Seg(FALSE, <<100, 200, 300>>)>>,
      <<Seg(FALSE, <<100, 200>>), Seg(TRUE, <<300, 400>>)>>,
      <<Seg(TRUE, <<400, 100>>), Seg(FALSE, <<200>>)>>,
      <<Seg(FALSE, <<100>>), Seg(FALSE, <<>>), Seg(TRUE, <<300>>)>>,
      <<Seg(FALSE, <<100, 200, 100>>)>> }
AsLists == { <<>>, <<100>>, <<200>>, <<300>>, <<400>>, <<300, 100>>, <<999>> }
AsPositions == {AS_SOURCE, AS_DESTINATION, AS_MIDPATH, AS_ANYWHERE}

ASFilterCall(arg, ph) ==
    Called("ASFilter", arg,
           [decoded |-> ph.kind,
            path |-> IF ph.kind = "ok" THEN GetASPath(ph.mbs)
                     ELSE [kind |-> "err", v |-> <<>>],
            out |-> IF ph.kind = "ok"
                    THEN ASFilterApply(NewASFilterFromSlice(arg.asList, arg.pos),
                                       ph.mbs)
                    ELSE [panic |-> FALSE, pass |-> FALSE]])

CallASFilter ==
    /\ call.fn = "none"
    /\ \E segs \in SegLists, asList \in AsLists, pos \in AsPositions :
          call' = ASFilterCall([segs |-> segs, asList |-> asList, pos |-> pos],
                               ParseHeaders(SliceOf(PathUpdate(segs))))
    /\ UNCHANGED <<scanVars, mrtVars, ptVars, rfVars, dumpVars>>

\* The ASNs of the segments as sent, one after the other.
WirePath(segs) == Concat([i \in 1..Len(segs) |-> segs[i].asns])
InList(asList, as) == \E i \in 1..Len(asList) : asList[i] = as

\* C12.  An ASN filter evaluates the collapsed AS_PATH (the ASNs of the
\* segments in wire order, sets and sequences alike): SOURCE accepts iff the
\* last ASN is in the filter's list, DESTINATION iff the first is, MIDPATH
\* iff the path has at least 3 ASNs and one strictly between the first and
\* the last is in the list, ANYWHERE iff any ASN is; an empty path is
\* rejected at every position.
C12_AsnFilterPositions ==
    call.fn = "ASFilter" =>
        LET path == WirePath(call.arg.segs)
            n == Len(path)
            S == call.arg.asList
        IN /\ call.res.decoded = "ok"
           /\ ~call.res.out.panic
           /\ call.res.path.kind = "ok" => call.res.path.v = path
           /\ call.res.out.pass <=>
                 CASE call.arg.pos = AS_SOURCE -> n >= 1 /\ InList(S, path[n])
                   [] call.arg.pos = AS_DESTINATION -> n >= 1 /\ InList(S, path[1])
                   [] call.arg.pos = AS_MIDPATH ->
                        n >= 3 /\ \E i \in 2..(n - 1) : InList(S, path[i])
                   [] call.arg.pos = AS_ANYWHERE ->
                        \E i \in 1..n : InList(S, path[i])

C12_Witness ==
    /\ call.fn = "ASFilter"
    /\ call.arg.pos = AS_MIDPATH
    /\ call.arg.segs = <<Seg(FALSE, <<100, 200>>), Seg(TRUE, <<300, 400>>)>>
    /\ call.arg.asList = <<300>>
    /\ call.res.path.v = <<100, 200, 300, 400>>
    /\ call.res.out.pass

\* ---- fileutil.FilterFile.getFilters
FileAsLists == { <<>>, <<100>>, <<200, 300>> }
FilePrefixLists ==
    { <<>>,
      <<[ok |-> TRUE, ip |-> v4InV6Prefix \o <<10, 0, 0, 0>>, mask |-> 8]>>,
      <<[ok |-> FALSE, ip |-> <<>>, mask |-> 0]>> }
FilterFiles ==
    [MonitoredPrefixes : FilePrefixLists, SourceASes : FileAsLists,
     DestASes : FileAsLists, MidPathASes : FileAsLists,
     AnywhereASes : FileAsLists]

CallGetFilters ==
    /\ call.fn = "none"
    /\ \E f \in FilterFiles : call' = Called("getFilters", f, getFilters(f))
    /\ UNCHANGED <<scanVars, mrtVars, ptVars, rfVars, dumpVars>>

\* The AS filters a filter file asks for: one per non-empty option, of the
\* option's position, matching against the option's own list.
AsFilterOf(list, pos) ==
    IF Len(list) > 0 THEN <<[kind |-> "as", loc |-> pos, asList |-> list]>>
    ELSE <<>>
WantedAsFilters(f) ==
    AsFilterOf(f.SourceASes, AS_SOURCE) \o AsFilterOf(f.DestASes, AS_DESTINATION)
        \o AsFilterOf(f.MidPathASes, AS_MIDPATH)
        \o AsFilterOf(f.AnywhereASes, AS_ANYWHERE)
ReturnedAsFilters(fils) ==
    LET as == SelectSeq(fils, LAMBDA x : x.kind = "as")
    IN [i \in 1..Len(as) |->
           [kind |-> "as", loc |-> as[i].loc, asList |-> as[i].asList]]

\* C13.  getFilters returns, for each non-empty AS option list, exactly one
\* filter of the corresponding position that matches against that option's
\* own list; absent or empty lists contribute no filter.
C13_OneFilterPerOptionOwnList ==
    (call.fn = "getFilters" /\ call.res.err = "nil") =>
        ReturnedAsFilters(call.res.filters) = WantedAsFilters(call.arg)

\* ---- filter.FilterAll on the stack of a decoded UPDATE
ListedFilters ==
    { NilFilter,
      NewASFilterFromSlice(<<200>>, AS_SOURCE),
      NewASFilterFromSlice(<<100>>, AS_ANYWHERE),
      NewASFilterFromSlice(<<999>>, AS_DESTINATION),
      NewPrefixFilterFromSlice(<<[ip |-> v4InV6Prefix \o <<10, 0, 0, 0>>,
                                  mask |-> 8]>>, AdvPrefix) }
FilterLists == SeqsUpTo(ListedFilters, MaxFilters)
FilteredRecs == {RecA, RecB}

FilterAllCall(arg, ph) ==
    Called("FilterAll", arg,
           [decoded |-> ph.kind,
            out |-> IF ph.kind = "ok" THEN FilterAll(arg.filters, ph.mbs)
                    ELSE [panic |-> FALSE, pass |-> FALSE]])

CallFilterAll ==
    /\ call.fn = "none"
    /\ \E fils \in FilterLists, rec \in FilteredRecs :
          call' = FilterAllCall([filters |-> fils, rec |-> rec],
                                ParseHeaders(SliceOf(rec)))
    /\ UNCHANGED <<scanVars, mrtVars, ptVars, rfVars, dumpVars>>

\* C14.  FilterAll(filters, stack) is the conjunction of the filters: it
\* returns true iff every non-nil filter of the list accepts the stack, and
\* an empty list accepts every stack.
C14_FilterAllIsConjunction ==
    call.fn = "FilterAll" =>
        LET mbs == ParseHeaders(SliceOf(call.arg.rec)).mbs
            fils == call.arg.filters
        IN /\ call.res.decoded = "ok"
           /\ ~call.res.out.panic
           /\ call.res.out.pass <=>
                 \A i \in 1..Len(fils) :
                     fils[i].kind # "nil" => ApplyFilter(fils[i], mbs).pass
           /\ fils = <<>> => call.res.out.pass

C14_Witness ==
    /\ call.fn = "FilterAll"
    /\ Len(call.arg.filters) = 3
    /\ call.arg.filters[1].kind = "nil"
    /\ call.arg.filters[2].kind = "prefix"
    /\ call.arg.filters[3].kind = "as"
    /\ ApplyFilter(call.arg.filters[2],
                   ParseHeaders(SliceOf(call.arg.rec)).mbs).pass
    /\ ~call.res.out.pass

\* ---- the built-in filters on the stacks of ParseHeaders and ParseRibHeaders
\* An AS_PATH attribute of one AS_SEQUENCE of 4-byte ASNs, as in a RIB entry.
As4PathAttr(path) ==
    <<64, AS_PATH, 2 + 4 * Len(path), 2, Len(path)>>
        \o Concat([i \in 1..Len(path) |-> PutUint32(path[i])])

\* A RIB_IPV4_UNICAST record for 10.0.0.0/8: sequence number, prefix, entry
\* count, and per entry peer index, timestamp, attribute length, attributes.
RibRecord(paths) ==
    MrtRec(TABLE_DUMP_V2, 2,
           <<0, 0, 0, 1, 8, 10>> \o PutUint16(Len(paths))
               \o Concat([i \in 1..Len(paths) |->
                              <<0, 0, 0, 0, 0, 0>>
                                  \o PutUint16(Len(As4PathAttr(paths[i])))
                                  \o As4PathAttr(paths[i])]))

\* A PEER_INDEX_TABLE record: collector id, empty view name, the peers
\* (IPv4, 2-byte AS).
PeerIndexRecord(npeers) ==
    MrtRec(TABLE_DUMP_V2, PEER_INDEX_TABLE,
           <<10, 0, 2, 9, 0, 0>> \o PutUint16(npeers)
               \o Concat([i \in 1..npeers |->
                              <<0, 10, 0, 2, i, 192, 0, 2, i>> \o PutUint16(100)]))

\* An UPDATE with neither withdrawn routes, attributes nor NLRI, and one
\* that only withdraws 10.0.0.0/8.
RecEmptyUpdate == Bgp4mpRecord(MESSAGE, <<0, 0, 0, 0>>)
RecWithdraw == Bgp4mpRecord(MESSAGE, <<0, 2, 8, 10, 0, 0>>)

StackRecs ==
    { RecA, RecB, RecEmptyUpdate, RecWithdraw,
      RibRecord(<<>>), RibRecord(<<<<100, 200>>>>),
      RibRecord(<<<<100>>, <<300, 200>>>>),
      PeerIndexRecord(0), PeerIndexRecord(1) }

BuiltinFilters ==
    { NewPrefixFilterFromSlice(<<[ip |-> v4InV6Prefix \o <<10, 0, 0, 0>>,
                                  mask |-> 8]>>, loc) :
          loc \in {AdvPrefix, WdrPrefix, AnyPrefix} }
    \cup { NewASFilterFromSlice(l, pos) :
              l \in {<<100>>, <<200>>}, pos \in AsPositions }

FilterCall(arg, ph) ==
    Called("Filter", arg,
           [decoded |-> ph.kind,
            isRib |-> ph.kind = "ok" /\ IsRibStack(ph.mbs),
            out |-> IF ph.kind = "ok" THEN ApplyFilter(arg.filter, ph.mbs)
                    ELSE [panic |-> FALSE, pass |-> FALSE]])

\* ParseHeaders(rec, false) and the filter on its stack
CallFilterOnUpdateStack ==
    /\ call.fn = "none"
    /\ \E fil \in BuiltinFilters, rec \in StackRecs :
          call' = FilterCall([filter |-> fil, rec |-> rec, rib |-> FALSE],
                             ParseHeaders(SliceOf(rec)))
    /\ UNCHANGED <<scanVars, mrtVars, ptVars, rfVars, dumpVars>>

\* ParseRibHeaders(rec, index) and the filter on its stack
CallFilterOnRibStack ==
    /\ call.fn = "none"
    /\ \E fil \in BuiltinFilters, rec \in StackRecs :
          call' = FilterCall([filter |-> fil, rec |-> rec, rib |-> TRUE],
                             ParseRibHeaders(SliceOf(rec)))
    /\ UNCHANGED <<scanVars, mrtVars, ptVars, rfVars, dumpVars>>

\* C15.  Every built-in filter (prefix filter at each position, ASN filter
\* at each position) returns a boolean for every stack that ParseHeaders or
\* ParseRibHeaders decodes, RIB stacks without route entries, peer-index
\* stacks and updates without attributes or routes included: it never
\* fails.
C15_FiltersNeverFail ==
    (call.fn = "Filter" /\ call.res.decoded = "ok") => ~call.res.out.panic

\* ---- bgpUpdateBuf.Parse on UPDATE bodies of an IPv4 session
\* The wire form of a prefix: the bit length, then ceil(bitlen / 8) bytes.
PrefixBytes(p) == <<p.mask>> \o SubSeq(p.ip, 1, (p.mask + 7) \div 8)
PrefixBlock(ps) == Concat([i \in 1..Len(ps) |-> PrefixBytes(ps[i])])
P4(a, b, c, d, mask) == [ip |-> <<a, b, c, d>>, mask |-> mask]

\* MP_UNREACH_NLRI: AFI 1, SAFI 1, the prefixes.
MpUnreachAttr(ps) ==
    LET v == <<0, 1, 1>> \o PrefixBlock(ps)
    IN <<128, MP_UNREACH_NLRI, Len(v)>> \o v
\* MP_REACH_NLRI: AFI 1, SAFI 1, a 4-byte next hop, no SNPA, the prefixes.
MpReachAttr(ps) ==
    LET v == <<0, 1, 1, 4, 192, 0, 2, 1, 0>> \o PrefixBlock(ps)
    IN <<128, MP_REACH_NLRI, Len(v)>> \o v

\* The UPDATE body of [wdr, mpwdr, mpadv, nlri]: the withdrawn routes, the
\* attributes ORIGIN, MP_UNREACH_NLRI and MP_REACH_NLRI (an MP attribute
\* without prefixes is left out), the NLRI.
UpdateAttrs(u) ==
    OriginAttr \o (IF u.mpwdr = <<>> THEN <<>> ELSE MpUnreachAttr(u.mpwdr))
               \o (IF u.mpadv = <<>> THEN <<>> ELSE MpReachAttr(u.mpadv))
UpdateOf(u) ==
    PutUint16(Len(PrefixBlock(u.wdr))) \o PrefixBlock(u.wdr)
        \o PutUint16(Len(UpdateAttrs(u))) \o UpdateAttrs(u) \o PrefixBlock(u.nlri)

Updates ==
    [wdr : {<<>>, <<P4(10, 0, 0, 0, 8)>>,
            <<P4(10, 1, 0, 0, 16), P4(10, 2, 3, 0, 24)>>},
     mpwdr : {<<>>, <<P4(172, 16, 0, 0, 12)>>,
              <<P4(172, 16, 0, 0, 16), P4(172, 17, 0, 0, 16)>>},
     mpadv : {<<>>, <<P4(192, 168, 0, 0, 16)>>,
              <<P4(192, 168, 1, 0, 24), P4(192, 168, 2, 128, 25)>>},
     nlri : {<<>>, <<P4(32, 0, 0, 0, 8)>>,
             <<P4(33, 1, 0, 0, 16), P4(34, 0, 0, 0, 7)>>}]

\* p is what Parse gave, ra what readAttrs gives on the attribute block.
UpdateParseCall(arg, p, ra) ==
    Called("bgpUpdateBuf.Parse", arg,
           [kind |-> p.kind,
            mpadv |-> ra.mpadv, mpwdr |-> ra.mpwdr,
            hasAdvertized |-> p.self.dest.hasAdvertized,
            advertized |-> p.self.dest.AdvertizedRoutes,
            hasWithdrawn |-> p.self.dest.hasWithdrawn,
            withdrawn |-> p.self.dest.WithdrawnRoutes])

CallUpdateParse ==
    /\ call.fn = "none"
    /\ \E u \in Updates :
          call' = UpdateParseCall(u,
                      bgpUpdateBufParse(NewBgpUpdateBuf(SliceOf(UpdateOf(u)),
                                                        FALSE, FALSE)),
                      readAttrs(SliceOf(UpdateAttrs(u)), FALSE, FALSE))
    /\ UNCHANGED <<scanVars, mrtVars, ptVars, rfVars, dumpVars>>

UpdateParsed == call.fn = "bgpUpdateBuf.Parse" /\ call.res.kind = "ok"

\* C16.  In a decoded UPDATE the advertised list is the MP_REACH prefixes
\* (what readAttrs returns for MP_REACH_NLRI) followed by the NLRI-body
\* prefixes, and the withdrawn list is the MP_UNREACH prefixes followed by
\* the withdrawn-body prefixes: the MP-extension prefixes come first on both
\* sides.
C16_MpFirstOnBothSides ==
    UpdateParsed =>
        /\ call.res.advertized = call.res.mpadv \o call.arg.nlri
        /\ call.res.withdrawn = call.res.mpwdr \o call.arg.wdr

\* C16, as the decoder has it.  The advertised list is the MP_REACH prefixes
\* followed by the NLRI-body prefixes; the withdrawn list is the
\* withdrawn-body prefixes followed by the MP_UNREACH prefixes.  Each list
\* is in the order of the UPDATE on the wire.
C16_WireOrderOnBothSides ==
    UpdateParsed =>
        /\ call.res.advertized = call.res.mpadv \o call.arg.nlri
        /\ call.res.withdrawn = call.arg.wdr \o call.res.mpwdr
        /\ call.res.hasAdvertized <=> call.res.advertized # <<>>
        /\ call.res.hasWithdrawn <=> call.res.withdrawn # <<>>

C16_Witness ==
    /\ UpdateParsed
    /\ Len(call.arg.wdr) = 2 /\ Len(call.arg.nlri) = 2
    /\ call.res.mpadv = call.arg.mpadv /\ Len(call.arg.mpadv) = 1
    /\ call.res.mpwdr = call.arg.mpwdr /\ Len(call.arg.mpwdr) = 2
    /\ call.res.withdrawn = call.arg.wdr \o call.arg.mpwdr
    /\ call.res.advertized = call.arg.mpadv \o call.arg.nlri

\* ---- bgp.readPrefix on blocks of well-formed prefix entries
P6(a, b, c, d, mask) == [ip |-> <<a, b, c, d>> \o Zeros(12), mask |-> mask]
V4Entries == { P4(0, 0, 0, 0, 0), P4(10, 0, 0, 0, 8), P4(10, 1, 128, 0, 17),
               P4(192, 0, 2, 1, 32) }
V6Entries == { P6(0, 0, 0, 0, 0), P6(32, 1, 13, 184, 32), P6(32, 1, 13, 128, 25) }

CallReadPrefix ==
    /\ call.fn = "none"
    /\ \/ \E es \in SeqsUpTo(V4Entries, MaxPrefixes) :
             call' = Called("readPrefix", [entries |-> es, v6 |-> FALSE],
                            readPrefix(SliceOf(PrefixBlock(es)), FALSE))
       \/ \E es \in SeqsUpTo(V6Entries, MaxPrefixes) :
             call' = Called("readPrefix", [entries |-> es, v6 |-> TRUE],
                            readPrefix(SliceOf(PrefixBlock(es)), TRUE))
    /\ UNCHANGED <<scanVars, mrtVars, ptVars, rfVars, dumpVars>>

\* C17.  For a block that is the concatenation of k well-formed prefix
\* entries (a bit length within the width of the address family, 0
\* included, then ceil(bitlen / 8) bytes), readPrefix returns exactly the k
\* prefixes in wire order with masks equal to the bit lengths; a /0 entry,
\* also in last position, is returned and does not stop the decoding of the
\* entries after it.
C17_ReadPrefixReturnsEveryEntry ==
    call.fn = "readPrefix" => call.res = call.arg.entries

\* ---- bgp.readAttrs on attribute blocks of a 2-byte-AS IPv4 session
\* An attribute as sent: flags, type code, length, value.
Attr(flags, code, value) == <<flags, code, Len(value)>> \o value
HandledTypes ==
    {ORIGIN, AS_PATH, NEXT_HOP, MULTI_EXIT, LOCAL_PREF, ATOMIC_AGGREGATE,
     AGGREGATOR, COMMUNITY, MP_REACH_NLRI, MP_UNREACH_NLRI, EXTENDED_COMMUNITY,
     AS4_PATH, AS4_AGGREGATOR, IPV6_ADDRESS_SPECIFIC_EXTENDED_COMMUNITY}
        \cup RecordedOnlyTypes
UnknownCode == CHOOSE c \in 0..255 : c \notin HandledTypes /\ c > AS4_AGGREGATOR
AttrCatalog ==
    { Attr(64, ORIGIN, <<0>>),
      Attr(64, AS_PATH, <<2, 2, 0, 100, 0, 200>>),
      Attr(64, LOCAL_PREF, <<0, 0, 0, 100>>),
      Attr(64, ATOMIC_AGGREGATE, <<>>),
      Attr(128, 9, <<192, 0, 2, 1>>),
      Attr(192, UnknownCode, <<1, 2>>) }
AttrLists == SeqsUpTo(AttrCatalog, MaxAttrs) \ {<<>>}

CallReadAttrs ==
    /\ call.fn = "none"
    /\ \E as \in AttrLists :
          call' = Called("readAttrs", as, readAttrs(SliceOf(Concat(as)), FALSE, FALSE))
    /\ UNCHANGED <<scanVars, mrtVars, ptVars, rfVars, dumpVars>>

\* The type codes of the attributes of a block, in wire order.
CodesOf(as) == [i \in 1..Len(as) |-> as[i][2]]
HasCode(as, code) == \E i \in 1..Len(as) : as[i][2] = code

\* C18.  Decoding a well-formed attribute block processes every attribute
\* in it: a zero-length ATOMIC_AGGREGATE sets atomic_aggregate and decoding
\* goes on with the attributes after it, so every attribute code of the
\* block appears in the presence list.
C18_WholeBlockDecoded ==
    (call.fn = "readAttrs" /\ ~HasCode(call.arg, UnknownCode)) =>
        /\ call.res.kind = "ok"
        /\ call.res.attrs.Types = CodesOf(call.arg)
        /\ HasCode(call.arg, ATOMIC_AGGREGATE) => call.res.attrs.AtomicAggregate

\* C19.  An attribute with a type code the decoder does not recognize is
\* not fatal: readAttrs records it, skips its declared length, goes on with
\* the attributes after it, and returns no error for it.
C19_UnknownAttributeSkipped ==
    (call.fn = "readAttrs" /\ ~HasCode(call.arg, ATOMIC_AGGREGATE)) =>
        /\ call.res.kind = "ok"
        /\ call.res.attrs.Types = CodesOf(call.arg)

\* ---- mrtHhdrBuf.Parse and the Parse of the decoder it returns
\* A BGP4MP payload with 2-byte AS numbers: peer AS 100, local AS 200,
\* interface 0, IPv4 addresses, then a BGP UPDATE.
TwoByteAsPayload ==
    PutUint16(100) \o PutUint16(200) \o PutUint16(0) \o PutUint16(AFI_IP)
        \o <<192, 0, 2, 1, 192, 0, 2, 2>> \o Marker
        \o PutUint16(19 + Len(UpdateBody(OriginAttr, <<8, 10>>))) \o <<2>>
        \o UpdateBody(OriginAttr, <<8, 10>>)
MrtTypes == {BGP4MP, BGP4MP_ET, TABLE_DUMP, TABLE_DUMP_V2, 99}
MrtSubtypes == 0..MaxSubtype

\* m is what mrth.Parse() gave, p1 what the Parse of the BGP4MP decoder gave.
MrtParseCall(arg, m, p1) ==
    Called("mrtHhdrBuf.Parse", arg,
           [kind |-> m.kind, next |-> m.next.type, isAS4 |-> m.next.isAS4,
            hdrKind |-> p1.kind,
            Peer_AS |-> p1.self.dest.Peer_AS, Local_AS |-> p1.self.dest.Local_AS])

MrtParseNext(arg, m) ==
    MrtParseCall(arg, m,
                 IF m.next.type = "bgp4mp" THEN bgp4mpHdrBufParse(m.next)
                 ELSE ParseErr("not a BGP4MP decoder", NewBgp4mpHdrBuf(EmptySlice, FALSE)))

CallMrtParse ==
    /\ call.fn = "none"
    /\ \E type \in MrtTypes, subtype \in MrtSubtypes :
          call' = MrtParseNext([type |-> type, subtype |-> subtype],
                      mrtHhdrBufParse(NewMrtHdrBuf(
                          SliceOf(MrtRec(type, subtype, TwoByteAsPayload)))))
    /\ UNCHANGED <<scanVars, mrtVars, ptVars, rfVars, dumpVars>>

\* C20.  MRT records of type BGP4MP (16) or BGP4MP_ET (17) with subtype
\* MESSAGE (1) or MESSAGE_LOCAL (7) are dispatched to the BGP4MP decoder
\* with is_as4 = false, so that peer and local ASN are read as 2-byte
\* values.
C20_MessageLocalIsTwoByteAs ==
    (/\ call.fn = "mrtHhdrBuf.Parse"
     /\ call.arg.type \in {BGP4MP, BGP4MP_ET}
     /\ call.arg.subtype \in {MESSAGE, MESSAGE_LOCAL}) =>
        /\ call.res.kind = "ok"
        /\ call.res.next = "bgp4mp"
        /\ ~call.res.isAS4
        /\ call.res.hdrKind = "ok"
        /\ call.res.Peer_AS = 100 /\ call.res.Local_AS = 200

\* ---- SplitMrt at end of input, then ParseHeaders on its token
\* The scanner's buffer when the input ends in the middle of a record: the
\* whole records not yet handed out (arg.whole), then the first arg.cut
\* bytes of a record that is longer.
SplitAtEOFCall(arg, data, r) ==
    Called("SplitMrt", arg,
           [data |-> data, advance |-> r.advance, token |-> r.token,
            decoded |-> IF r.token.isNil THEN "none"
                        ELSE ParseHeaders(SliceOf(r.token.bytes)).kind])

SplitAtEOF(arg, data) ==
    SplitAtEOFCall(arg, data, SplitMrt(data, Len(data), TRUE))

CallSplitMrtAtEOF ==
    /\ call.fn = "none"
    /\ \E whole \in SeqsUpTo(FilteredRecs, 1), rec \in FilteredRecs :
          \E cut \in 1..(Len(rec) - 1) :
              call' = SplitAtEOF([whole |-> whole, rec |-> rec, cut |-> cut],
                                 Concat(whole) \o SubSeq(rec, 1, cut))
    /\ UNCHANGED <<scanVars, mrtVars, ptVars, rfVars, dumpVars>>

\* C21.  When the input ends in the middle of a record, SplitMrt at end of
\* input returns the remaining bytes verbatim as a token, and decoding that
\* token always yields an error, never a successfully decoded record.
C21_TruncatedTailIsDecodeError ==
    call.fn = "SplitMrt" =>
        /\ ~call.res.token.isNil
        /\ call.res.token.bytes = call.res.data
        /\ call.res.advance = Len(call.res.data)
        /\ call.res.decoded = "err"

\* ---- bgp.readAttrs on a block with an MP attribute and what follows it
\* The prefix lists an MP attribute carries, and the attributes after it.
MpLists == {<<P4(172, 16, 0, 0, 12)>>,
            <<P4(172, 16, 0, 0, 16), P4(172, 17, 0, 0, 16)>>}
MpFollowers == {<<>>, Attr(64, LOCAL_PREF, <<0, 0, 0, 100>>),
                Attr(64, AS_PATH, <<2, 2, 0, 100, 0, 200>>)}

CallReadAttrsMp ==
    /\ call.fn = "none"
    /\ \E ps \in MpLists, after \in MpFollowers :
          \/ call' = Called("readAttrs MP_REACH_NLRI",
                            [ps |-> ps, after |-> after],
                            readAttrs(SliceOf(OriginAttr \o MpReachAttr(ps) \o after),
                                      FALSE, FALSE))
          \/ call' = Called("readAttrs MP_UNREACH_NLRI",
                            [ps |-> ps, after |-> after],
                            readAttrs(SliceOf(OriginAttr \o MpUnreachAttr(ps) \o after),
                                      FALSE, FALSE))
    /\ UNCHANGED <<scanVars, mrtVars, ptVars, rfVars, dumpVars>>

\* C23.  The prefixes returned through mp_advertised and mp_withdrawn are
\* decoded only from bytes inside the declared length of the MP_REACH_NLRI
\* or MP_UNREACH_NLRI attribute: they are what readPrefix gives on the
\* attribute's own NLRI bytes, whatever attribute follows.
C23_MpPrefixesFromOwnBytes ==
    /\ call.fn = "readAttrs MP_REACH_NLRI" =>
          /\ call.res.kind = "ok"
          /\ call.res.mpadv = readPrefix(SliceOf(PrefixBlock(call.arg.ps)), FALSE)
          /\ call.res.mpwdr = <<>>
    /\ call.fn = "readAttrs MP_UNREACH_NLRI" =>
          /\ call.res.kind = "ok"
          /\ call.res.mpwdr = readPrefix(SliceOf(PrefixBlock(call.arg.ps)), FALSE)
          /\ call.res.mpadv = <<>>

\* ---- bgp.readAttrs on an AS_PATH whose declared length is too small
\* One AS_SEQUENCE segment of two 2-byte ASNs (100 200): 6 bytes.
PathValue == <<2, 2, 0, 100, 0, 200>>

\* The attribute is sent with the declared length arg.declared and is
\* followed by a LOCAL_PREF attribute, so that the segment fits in the block.
CallReadAttrsDeclared ==
    /\ call.fn = "none"
    /\ \E declared \in 1..Len(PathValue) :
          call' = Called("readAttrs AS_PATH", [declared |-> declared],
                         readAttrs(SliceOf(<<64, AS_PATH, declared>> \o PathValue
                                          \o Attr(64, LOCAL_PREF, <<0, 0, 0, 100>>)),
                                   FALSE, FALSE))
    /\ UNCHANGED <<scanVars, mrtVars, ptVars, rfVars, dumpVars>>

\* C24.  If the inner decoder of an attribute consumes more bytes than the
\* attribute's declared length (an AS_PATH whose segment runs past the
\* declared length but still fits in the block), readAttrs returns a decode
\* error value and does not continue or fail in any other way.
C24_OverrunIsDecodeError ==
    (call.fn = "readAttrs AS_PATH" /\ call.arg.declared < Len(PathValue)) =>
        call.res.kind = "err"

\* ---- bgp.readPrefix on arbitrary bytes
\* A block: any first byte (taken as a bit length), then bytes with every
\* bit set, of the lengths around the address sizes.
BodyLengths == {0, 1, 3, 4, 5, 8, 16, 17}
AllOnes(k) == [i \in 1..k |-> 255]

CallReadPrefixBytes ==
    /\ call.fn = "none"
    /\ \E first \in 0..255, k \in BodyLengths, v6 \in BOOLEAN :
          call' = Called("readPrefix bytes", [first |-> first, k |-> k, v6 |-> v6],
                         readPrefix(SliceOf(<<first>> \o AllOnes(k)), v6))
    /\ UNCHANGED <<scanVars, mrtVars, ptVars, rfVars, dumpVars>>

\* Byte j of an address has no bit set beyond the first mask bits.
ByteClearedPast(ip, j, mask) ==
    IF 8 * j <= mask THEN TRUE
    ELSE IF 8 * (j - 1) >= mask THEN ip[j] = 0
    ELSE ip[j] % Pow2(8 - (mask % 8)) = 0

WellFormedPrefix(p, v6) ==
    /\ p.mask <= (IF v6 THEN 128 ELSE 32)
    /\ Len(p.ip) = (IF v6 THEN 16 ELSE 4)
    /\ \A j \in 1..Len(p.ip) : ByteClearedPast(p.ip, j, p.mask)

\* C25.  For any input bytes, every Prefix returned by readPrefix has a mask
\* of at most 32 in IPv4 mode and at most 128 in IPv6 mode, an address of
\* exactly 4 or 16 bytes, and all address bits beyond the mask cleared.
C25_PrefixesWellFormed ==
    call.fn = "readPrefix bytes" =>
        \A i \in 1..Len(call.res) : WellFormedPrefix(call.res[i], call.arg.v6)

\* ---- mrtHhdrBuf.Parse on a buffer that is longer than its record
\* The (type, subtype) pairs Parse has a decoder for, and what the buffer
\* holds after the record.
DecodedKinds == {<<BGP4MP, MESSAGE>>, <<BGP4MP_ET, MESSAGE_AS4>>,
                 <<TABLE_DUMP_V2, PEER_INDEX_TABLE>>, <<TABLE_DUMP_V2, 2>>}
Trailers == {<<>>, <<1, 2, 3>>, RecB}

MrtPayloadCall(arg, m) ==
    Called("mrtHhdrBuf.Parse payload", arg,
           [kind |-> m.kind, Len |-> m.self.dest.Len,
            payload |-> SBytes(m.next.buf)])

CallMrtParsePayload ==
    /\ call.fn = "none"
    /\ \E ts \in DecodedKinds, trailer \in Trailers :
          call' = MrtPayloadCall(
                      [record |-> MrtRec(ts[1], ts[2], TwoByteAsPayload),
                       trailer |-> trailer],
                      mrtHhdrBufParse(NewMrtHdrBuf(SliceOf(
                          MrtRec(ts[1], ts[2], TwoByteAsPayload) \o trailer))))
    /\ UNCHANGED <<scanVars, mrtVars, ptVars, rfVars, dumpVars>>

\* C26.  After mrtHhdrBuf.Parse succeeds on any buffer, the payload handed
\* to the next decoder is exactly the Len bytes that follow the 12-byte
\* header; bytes of the buffer beyond 12 + Len are not part of the payload.
C26_PayloadIsLenBytes ==
    (call.fn = "mrtHhdrBuf.Parse payload" /\ call.res.kind = "ok") =>
        /\ Len(call.res.payload) = call.res.Len
        /\ call.res.payload =
              SubSeq(call.arg.record, MRT_HEADER_LEN + 1,
                     MRT_HEADER_LEN + call.res.Len)

\* ---- ParseHeaders(data, false) on records that end early
\* A BGP4MP record whose UPDATE body is the withdrawn-routes length (0) and
\* nothing else: it ends before its attribute-length field.
RecNoAttrLen ==
    MrtRec(BGP4MP, MESSAGE,
           Bgp4mpHdr(AFI_IP, <<192, 0, 2, 1, 192, 0, 2, 2>>) \o Marker
               \o PutUint16(19 + 2) \o <<2>> \o PutUint16(0))
ShortRecs == {RecA, RecShort, RecShortV6, RecNoAttrLen}
\* The bytes of the backing array behind the record: none when data is a
\* slice of its own, some when it is a window of a larger buffer.
Slack == {<<>>, <<0, 0>>, <<0, 9>>}

CallParseHeadersShort ==
    /\ call.fn = "none"
    /\ \E rec \in ShortRecs, behind \in Slack :
          call' = Called("ParseHeaders", [rec |-> rec, behind |-> behind],
                         ParseHeaders(Sl(rec \o behind, 0, Len(rec))))
    /\ UNCHANGED <<scanVars, mrtVars, ptVars, rfVars, dumpVars>>

\* C27.  For every byte string given to ParseHeaders on the update path,
\* the result is either a decoded stack or an error value: the
\* BGP4MP-header, BGP-header and UPDATE-body decoders never read past the
\* end of their slice (the result does not depend on what lies behind the
\* record in memory), for instance on an IPv6 BGP4MP header cut short after
\* 20 bytes or an UPDATE body that ends before its attribute-length field.
C27_NoReadPastTheSlice ==
    call.fn = "ParseHeaders" =>
        /\ call.res.kind \in {"ok", "err"}
        /\ call.res = ParseHeaders(SliceOf(call.arg.rec))

\* ---- the calls together
NextCalls ==
    \/ CallIpToRadixkey
    \/ CallASFilter
    \/ CallGetFilters
    \/ CallFilterAll
    \/ CallFilterOnUpdateStack
    \/ CallFilterOnRibStack
    \/ CallUpdateParse
    \/ CallReadPrefix
    \/ CallReadAttrs
    \/ CallMrtParse
    \/ CallSplitMrtAtEOF
    \/ CallReadAttrsMp
    \/ CallReadAttrsDeclared
    \/ CallReadPrefixBytes
    \/ CallMrtParsePayload
    \/ CallParseHeadersShort
    \/ CallReturn

SpecCalls == InitCalls /\ [][NextCalls]_vars


(***************************************************************************)
(* SpecDump: gobgpdump's main with its worker goroutines.  Every worker    *)
(* takes file names from dc.source (thread safe), and for the record of    *)
(* each file calls dc.fmtr.format and dc.dump.WriteString.  The goroutines *)
(* share the TextFormatter and the MultiWriteFile; a step of the model is  *)
(* one access of one goroutine to what they share.                         *)
(***************************************************************************)
\* What TextFormatter.format returns for message number num, as bytes:
\* "[", the number, "]", then the text of the worker's record.
RecordText(w) == [i \in 1..w |-> 64 + w]
Text(num, w) == <<91, 48 + num, 93>> \o RecordText(w)

\* sync.Mutex: Lock returns only when the mutex is unlocked.
MutexAlwaysFree(m) == TRUE

MutexFree(m) == m = 0

InitDump ==
    /\ mwf \in {NewMultiWriteFile(fd) : fd \in {"nil", "file"}}
    /\ sink = <<>>
    /\ fmtr = NewTextFormatter
    /\ wk = [w \in Workers |-> NewWorker]
    /\ files \in 0..NumWorkers      \* at most one file name per worker
    /\ formatted = <<>>
    /\ ScanIdle /\ MrtIdle /\ PtIdle /\ RfIdle /\ CallIdle

\* worker: name, serr := dc.source.Next(); dumpFile(name, dc) opens the file
\* and scans its record; EOP ends the worker.
SourceNext(w) ==
    /\ wk[w].pc = "next"
    /\ IF files > 0
       THEN /\ files' = files - 1
            /\ wk' = [wk EXCEPT ![w].pc = "format"]
       ELSE /\ wk' = [wk EXCEPT ![w].pc = "done"]
            /\ UNCHANGED files
    /\ UNCHANGED <<mwf, sink, fmtr, formatted>>
    /\ UNCHANGED <<scanVars, mrtVars, ptVars, rfVars, callVars>>

\* format: the Sprintf calls read t.msgNum.
FormatSprintf(w) ==
    /\ wk[w].pc = "format"
    /\ wk' = [wk EXCEPT ![w].pc = "load", ![w].num = fmtr.msgNum,
                        ![w].out = Text(fmtr.msgNum, w)]
    /\ UNCHANGED <<mwf, sink, fmtr, files, formatted>>
    /\ UNCHANGED <<scanVars, mrtVars, ptVars, rfVars, callVars>>

\* format: t.msgNum++ reads the field ...
FormatLoad(w) ==
    /\ wk[w].pc = "load"
    /\ wk' = [wk EXCEPT ![w].pc = "store", ![w].tmp = fmtr.msgNum]
    /\ UNCHANGED <<mwf, sink, fmtr, files, formatted>>
    /\ UNCHANGED <<scanVars, mrtVars, ptVars, rfVars, callVars>>

\* ... and writes it back, one more; format returns.
FormatStore(w) ==
    /\ wk[w].pc = "store"
    /\ fmtr' = [fmtr EXCEPT !.msgNum = wk[w].tmp + 1]
    /\ formatted' = Append(formatted, wk[w].num)
    /\ wk' = [wk EXCEPT ![w].pc = "lock", ![w].tmp = 0]
    /\ UNCHANGED <<mwf, sink, files>>
    /\ UNCHANGED <<scanVars, mrtVars, ptVars, rfVars, callVars>>

\* WriteString: mwf.mx.Lock(); a nil base returns at once (the deferred
\* Unlock is the next step).
WriteLock(w) ==
    /\ wk[w].pc = "lock"
    /\ MutexFree(mwf.mx)
    /\ mwf' = [mwf EXCEPT !.mx = w]
    /\ wk' = [wk EXCEPT ![w].pc = IF mwf.base = "nil" THEN "unlock" ELSE "write",
                        ![w].n = 0]
    /\ UNCHANGED <<sink, fmtr, files, formatted>>
    /\ UNCHANGED <<scanVars, mrtVars, ptVars, rfVars, callVars>>

\* WriteString: mwf.base.WriteString(s).  The file takes the bytes in one or
\* more pieces.
FileWrite(w) ==
    /\ wk[w].pc = "write"
    /\ \E c \in 1..(Len(wk[w].out) - wk[w].n) :
          /\ sink' = sink \o SubSeq(wk[w].out, wk[w].n + 1, wk[w].n + c)
          /\ wk' = [wk EXCEPT ![w].n = wk[w].n + c,
                              ![w].pc = IF wk[w].n + c = Len(wk[w].out)
                                        THEN "unlock" ELSE "write"]
    /\ UNCHANGED <<mwf, fmtr, files, formatted>>
    /\ UNCHANGED <<scanVars, mrtVars, ptVars, rfVars, callVars>>

\* WriteString: the deferred mwf.mx.Unlock(); dumpFile returns.
WriteUnlock(w) ==
    /\ wk[w].pc = "unlock"
    /\ mwf' = [mwf EXCEPT !.mx = 0]
    /\ wk' = [wk EXCEPT ![w] = NewWorker]
    /\ UNCHANGED <<sink, fmtr, files, formatted>>
    /\ UNCHANGED <<scanVars, mrtVars, ptVars, rfVars, callVars>>

NextDump ==
    \E w \in Workers :
        \/ SourceNext(w)
        \/ FormatSprintf(w)
        \/ FormatLoad(w)
        \/ FormatStore(w)
        \/ WriteLock(w)
        \/ FileWrite(w)
        \/ WriteUnlock(w)

SpecDump == InitDump /\ [][NextDump]_vars

\* Every payload a WriteString call of the dump can be given.
CallPayloads == { Text(num, w) : num \in 0..NumWorkers, w \in Workers }

\* s is a concatenation of whole call payloads.
RECURSIVE WholePayloads(_)
WholePayloads(s) ==
    \/ s = <<>>
    \/ \E p \in CallPayloads :
          /\ Len(p) <= Len(s)
          /\ SubSeq(s, 1, Len(p)) = p
          /\ WholePayloads(SubSeq(s, Len(p) + 1, Len(s)))

\* The bytes the call of worker w has handed to the file so far.
BeingWritten(w) ==
    IF wk[w].pc = "write" THEN SubSeq(wk[w].out, 1, wk[w].n) ELSE <<>>

\* C22.  With several workers calling WriteString on the same
\* MultiWriteFile concurrently, the bytes of two calls never interleave: the
\* sink's content is a concatenation of whole call payloads in some order,
\* followed, while one call is inside the file's write, by the bytes of that
\* one call written so far; at most one call is there at a time.
C22_WritesNeverInterleave ==
    /\ \A w1, w2 \in Workers :
          (wk[w1].pc \in {"write", "unlock"} /\ wk[w2].pc \in {"write", "unlock"})
              => w1 = w2
    /\ \E w \in Workers :
          \E k \in 0..Len(sink) :
             /\ WholePayloads(SubSeq(sink, 1, k))
             /\ SubSeq(sink, k + 1, Len(sink)) = BeingWritten(w)
    /\ (\A w \in Workers : wk[w].pc # "write") => WholePayloads(sink)

C22_Witness ==
    \E w1, w2 \in Workers :
        /\ w1 # w2
        /\ wk[w1].pc = "write" /\ wk[w1].n = 2 /\ mwf.mx = w1
        /\ wk[w2].pc = "lock" /\ wk[w2].out # <<>>
        /\ sink = SubSeq(wk[w1].out, 1, 2)

\* C30.  When several dump workers format records through one shared
\* TextFormatter, every formatted record gets a distinct message number and
\* after k format calls the counter equals k, under every interleaving of
\* the workers.
C30_DistinctMessageNumbers ==
    /\ \A i, j \in DOMAIN formatted :
          i # j => formatted[i] # formatted[j]
    /\ (\A w \in Workers : wk[w].pc \notin {"load", "store"})
          => fmtr.msgNum = Len(formatted)

=============================================================================
